---- MODULE Spec2Model ----
(***************************************************************************)
(* A model of the FTServo toolkit: the Connection Manager, the control     *)
(* modules built on it (Basic Control, PID Controller, Safety Manager,     *)
(* Hardware Config), the calibrate-center primitive of the calibration     *)
(* scripts, and the pane worker of the factory calibration GUI.            *)
(*                                                                         *)
(* The vendored SDK (port handler, protocol handlers) is the transport: it *)
(* is modelled as a mock whose every call is logged and whose outcome      *)
(* (a result code with an error detail, or a raised fault) is chosen       *)
(* nondeterministically.                                                   *)
(***************************************************************************)
EXTENDS Integers, Sequences, FiniteSets, TLC

\* ------------------------------------------------------------------ bounds
\* port handlers created (connect calls that reach line 61)
MaxHandles == 3
\* servo ids addressed by the control-module operations
MaxServoId == 1
\* run_scanner threads and process_id_changes threads alive at once
MaxScanThreads == 2
MaxProcessors == 2
\* ID-change requests submitted on the pane
MaxRequests == 2
\* the longest timeout a move_to_position call is given, in sleeps of 0.05 s
MaxTimeout == 2

\* ------------------------------------------------- settings (config/settings.py)
COMM_SUCCESS == 0
COMM_TX_FAIL == -2
COMM_RX_TIMEOUT == -4
ERROR_INVALID_PARAMETER == -101
ERROR_OPERATION_FAILED == -102

MIN_POSITION == 0
MAX_POSITION == 4095
MIN_SPEED == 0
MAX_SPEED == 2047
MIN_ACCELERATION == 0
MAX_ACCELERATION == 255
MIN_TORQUE == 0
MAX_TORQUE == 2047
MIN_PID_GAIN == 0
MAX_PID_GAIN == 255
MIN_STARTUP_TORQUE == 0
MAX_STARTUP_TORQUE == 255
DEFAULT_STARTUP_TORQUE == 16

\* CommunicationConfig.PROTOCOLS: the keys of the protocol table
PROTOCOLS == {"hls", "scscl", "sms_sts"}

\* PIDConfig.DEFAULT_POSITION_PID / DEFAULT_SPEED_PID: dictionaries keyed by name
DEFAULT_POSITION_PID == [P |-> 32, I |-> 0, D |-> 32]
DEFAULT_SPEED_PID == [P |-> 10, I |-> 200]

\* ------------------------------------------------ register map (config/memory_map.py)
ADDR_ID == 5
MAX_TEMPERATURE_LIMIT == 13
MAX_INPUT_VOLTAGE == 14
MIN_INPUT_VOLTAGE == 15
POSITION_P_GAIN == 21
POSITION_D_GAIN == 22
POSITION_I_GAIN == 23
STARTUP_TORQUE == 24
SPEED_P_GAIN == 41
SPEED_I_GAIN_L == 44
TORQUE_ENABLE == 46
GOAL_POSITION_L == 48
PRESENT_POSITION_L == 57
GOAL_SPEED_L == 52
TORQUE_LIMIT_L == 54

\* ------------------------------- calibration scripts (servo_middle_calibration.py)
SMS_STS_TORQUE_ENABLE == 40
SMS_STS_CALIBRATE_MIDDLE_VALUE == 128
SMS_STS_MIDDLE_POSITION == 2048

\* ------------------------------------------------------------- the transport
\* What one call of the vendored SDK can do: return (result, error), or raise.
Returned(result, error) == [raises |-> FALSE, result |-> result, error |-> error]
Raised == [raises |-> TRUE, result |-> ERROR_OPERATION_FAILED, error |-> "Exception"]
Outcomes ==
    { Returned(COMM_SUCCESS, "None"),
      Returned(COMM_TX_FAIL, "TxFail"),
      Returned(COMM_RX_TIMEOUT, "RxTimeout"),
      Raised }

ServoIds == 1..MaxServoId

None == 0            \* an absent port handler
NoHandler == "None"  \* an absent protocol handler

VARIABLES
    \* ConnectionManager fields
    is_connected, port_handler, protocol_handler, connection_lock,
    \* the port handlers created so far: [open, opened, closes, clash]
    handles,
    \* threads calling connect()/disconnect(): position, call and result
    pc, call, retval,
    \* the last control-module operation: its name and arguments, the transport
    \* calls it made (with what each returned), and what it returned
    op, calls, ret,
    \* the position the servo on the calibration bench is at (turned by hand)
    present_position,
    \* the calibration tool: one pane's ServoWorker, its ID-change queue, its
    \* scan threads and ID-change threads, the child script on the pane's port,
    \* the requests submitted so far and the log of their executions
    worker, id_change_queue, scanner, processor, child, submitted, id_log,
    \* the control servers: each server's hardware state, and each server's one
    \* client connection with the messages it sent and the replies it got
    server, session,
    \* the frame of a running BasicControl.move_to_position call
    mover,
    \* the calibration tool's window: both panes' workers with their scan
    \* threads, the quick action in flight on each pane's port, and the
    \* remote-control worker with its child process
    panels, quick, remote_worker,
    \* a StatusMonitor: its flag, callbacks and worker thread, and what the
    \* worker has done in the tick it is in, and the worker threads of earlier
    \* starts that are still alive
    monitor, tick, loops,
    \* the standalone scripts: the interactive calibration workflow, the
    \* torque-enable register of the servos on the bus, and the runs of the
    \* disable batch so far
    calibrator, torque_enable, runs

connVars == <<is_connected, port_handler, protocol_handler, handles>>
thrVars == <<connection_lock, pc, call, retval>>
opVars == <<op, calls, ret>>
guiVars == <<worker, id_change_queue, scanner, processor, child, submitted, id_log>>
srvVars == <<server, session>>
paneVars == <<panels, quick, remote_worker>>
monVars == <<monitor, tick, loops>>
scriptVars == <<calibrator, torque_enable, runs>>
toolVars == <<paneVars, monVars, scriptVars>>
vars == <<connVars, thrVars, opVars, present_position, guiVars, srvVars, mover, toolVars>>

\* ------------------------------------------------ vendored port handler (mock)
Conn == [is_connected |-> is_connected, port_handler |-> port_handler,
         protocol_handler |-> protocol_handler, handles |-> handles]

NewHandle == [open |-> FALSE, opened |-> FALSE, closes |-> 0, clash |-> FALSE]

\* the port handlers that hold the serial port open
OpenHandles(hs) == {h \in DOMAIN hs : hs[h].open}

\* PortHandler(port_name): a fresh handler, not yet open
PortHandler(s) ==
    [s EXCEPT !.handles = Append(s.handles, NewHandle),
              !.port_handler = Len(s.handles) + 1]

\* port_handler.openPort() returning True; clash records that the serial port
\* was already held open when it was opened
openPort(s) ==
    [s EXCEPT !.handles[s.port_handler].open = TRUE,
              !.handles[s.port_handler].opened = TRUE,
              !.handles[s.port_handler].clash = @ \/ OpenHandles(s.handles) # {}]

\* port_handler.closePort(): counted per handler, so that a second close shows
closePort(s) ==
    [s EXCEPT !.handles[s.port_handler].open = FALSE,
              !.handles[s.port_handler].closes =
                  IF @ < 2 THEN @ + 1 ELSE @]

\* What openPort / setBaudRate / the protocol class constructor do in one call
ConnOutcomes == [open : {"ok", "fail", "raise"},
                 baud : {"ok", "fail", "raise"},
                 proto : {"ok", "raise"}]

\* --------------------------------------- ConnectionManager.connect / disconnect
Goto(s, l) == [s |-> s, l |-> l, r |-> "None"]
Return(s, r) == [s |-> s, l |-> "ret", r |-> r]

\* A _cleanup that forgets to close the port
CleanupStepNoClose(l, s, caller) ==
    CASE l = "k_close" -> Goto(s, "k_port")
      [] l = "k_port" -> Goto([s EXCEPT !.port_handler = None], "k_proto")
      [] l = "k_proto" ->
            IF caller = "connect"
            THEN Return([s EXCEPT !.protocol_handler = NoHandler], "False")
            ELSE Goto([s EXCEPT !.protocol_handler = NoHandler], "d_set")

\* _cleanup, one statement per label (lines 103-110)
CleanupStep(l, s, caller) ==
    CASE l = "k_close" ->
            \* try: if self.port_handler: closePort()  except: pass
            Goto(IF s.port_handler # None THEN closePort(s) ELSE s, "k_port")
      [] l = "k_port" -> Goto([s EXCEPT !.port_handler = None], "k_proto")
      [] l = "k_proto" ->
            IF caller = "connect"
            THEN Return([s EXCEPT !.protocol_handler = NoHandler], "False")
            ELSE Goto([s EXCEPT !.protocol_handler = NoHandler], "d_set")

\* connect(protocol), one statement per label, inside the lock (lines 51-90)
ConnectStep(l, s, protocol, o) ==
    CASE l = "c_check" ->
            IF s.is_connected THEN Return(s, "True") ELSE Goto(s, "c_new")
      [] l = "c_new" -> Goto(PortHandler(s), "c_open")
      [] l = "c_open" ->
            IF s.port_handler = None \/ o.open = "raise" THEN Goto(s, "k_close")
            ELSE IF o.open = "fail" THEN Return(s, "False")
            ELSE Goto(openPort(s), "c_baud")
      [] l = "c_baud" ->
            IF s.port_handler = None \/ o.baud = "raise" THEN Goto(s, "k_close")
            ELSE IF o.baud = "fail" THEN Goto(s, "c_baud_close")
            ELSE Goto(s, "c_proto")
      [] l = "c_baud_close" ->
            IF s.port_handler = None THEN Goto(s, "k_close")
            ELSE Return(closePort(s), "False")
      [] l = "c_proto" ->
            IF protocol \notin PROTOCOLS THEN Goto(s, "c_proto_close")
            ELSE IF o.proto = "raise" THEN Goto(s, "k_close")
            ELSE Goto([s EXCEPT !.protocol_handler = protocol], "c_set")
      [] l = "c_proto_close" ->
            IF s.port_handler = None THEN Goto(s, "k_close")
            ELSE Return(closePort(s), "False")
      [] l = "c_set" -> Return([s EXCEPT !.is_connected = TRUE], "True")
      [] OTHER -> CleanupStep(l, s, "connect")

\* A disconnect that clears the flag and leaves the handlers in place
DisconnectStepFlagOnly(l, s) ==
    CASE l = "d_check" ->
            IF s.is_connected THEN Goto(s, "d_set") ELSE Return(s, "None")
      [] l = "d_set" -> Return([s EXCEPT !.is_connected = FALSE], "None")
      [] OTHER -> CleanupStep(l, s, "disconnect")

\* disconnect(), one statement per label, inside the lock (lines 95-99)
DisconnectStep(l, s) ==
    CASE l = "d_check" ->
            IF s.is_connected THEN Goto(s, "k_close") ELSE Return(s, "None")
      [] l = "d_set" -> Return([s EXCEPT !.is_connected = FALSE], "None")
      [] OTHER -> CleanupStep(l, s, "disconnect")

\* A whole call by a single caller: the steps run to the return.
RECURSIVE RunConnect(_, _, _, _)
RunConnect(l, s, protocol, o) ==
    LET n == ConnectStep(l, s, protocol, o)
    IN IF n.l = "ret" THEN n ELSE RunConnect(n.l, n.s, protocol, o)

RECURSIVE RunDisconnect(_, _)
RunDisconnect(l, s) ==
    LET n == DisconnectStep(l, s)
    IN IF n.l = "ret" THEN n ELSE RunDisconnect(n.l, n.s)

SetConn(s) ==
    /\ is_connected' = s.is_connected
    /\ port_handler' = s.port_handler
    /\ protocol_handler' = s.protocol_handler
    /\ handles' = s.handles

\* ------------------------------------ threads calling connect() / disconnect()
Threads == {"t1", "t2"}
NoThread == "free"
ProtocolArgs == PROTOCOLS \cup {"other"}

\* A connect/disconnect that does not wait for the lock
LockIgnored == TRUE

\* with self.connection_lock: the lock can be taken when no thread holds it
LockAvailable == connection_lock = NoThread

\* connect calls that have not created their port handler yet
Pending == {t \in Threads : call[t].name = "connect" /\ pc[t] \in {"acquire", "c_check", "c_new"}}

CallConnect(t, protocol) ==
    /\ pc[t] = "idle"
    /\ Len(handles) + Cardinality(Pending) < MaxHandles
    /\ pc' = [pc EXCEPT ![t] = "acquire"]
    /\ call' = [call EXCEPT ![t] = [name |-> "connect", protocol |-> protocol]]
    /\ retval' = [retval EXCEPT ![t] = "None"]
    /\ UNCHANGED <<srvVars, mover, toolVars, connVars, connection_lock, opVars, present_position, guiVars>>

CallDisconnect(t) ==
    /\ pc[t] = "idle"
    /\ pc' = [pc EXCEPT ![t] = "acquire"]
    /\ call' = [call EXCEPT ![t] = [name |-> "disconnect", protocol |-> "None"]]
    /\ retval' = [retval EXCEPT ![t] = "None"]
    /\ UNCHANGED <<srvVars, mover, toolVars, connVars, connection_lock, opVars, present_position, guiVars>>

Acquire(t) ==
    /\ pc[t] = "acquire"
    /\ LockAvailable
    /\ connection_lock' = t
    /\ pc' = [pc EXCEPT ![t] = IF call[t].name = "connect" THEN "c_check" ELSE "d_check"]
    /\ UNCHANGED <<srvVars, mover, toolVars, connVars, call, retval, opVars, present_position, guiVars>>

Step(t) ==
    /\ pc[t] \notin {"idle", "acquire", "ret"}
    /\ \E o \in ConnOutcomes :
         LET n == IF call[t].name = "connect"
                  THEN ConnectStep(pc[t], Conn, call[t].protocol, o)
                  ELSE DisconnectStep(pc[t], Conn)
         IN /\ SetConn(n.s)
            /\ pc' = [pc EXCEPT ![t] = n.l]
            /\ retval' = [retval EXCEPT ![t] = n.r]
    /\ UNCHANGED <<srvVars, mover, toolVars, connection_lock, call, opVars, present_position, guiVars>>

\* leaving the with block: the call has returned
Release(t) ==
    /\ pc[t] = "ret"
    /\ connection_lock' = NoThread
    /\ pc' = [pc EXCEPT ![t] = "idle"]
    /\ UNCHANGED <<srvVars, mover, toolVars, connVars, call, retval, opVars, present_position, guiVars>>

NoOp == [name |-> "none", id |-> 0, args |-> <<>>]
NoRet == [value |-> <<>>, result |-> COMM_SUCCESS, error |-> "None", raised |-> FALSE]
\* no frame has been received on the client connection
\* the two panes of the calibration tool's window
Panes == {"left", "right"}

\* no quick action is in flight
NoQuick == [port |-> "none", action |-> "none", process |-> "none"]

\* no monitoring thread is alive
NoMonitorThread ==
    [pc |-> "none", servo_ids |-> <<>>, interval |-> 0, i |-> 0, j |-> 0, status |-> "none"]

\* the most worker threads of earlier starts alive beside monitor_thread
MaxEarlier == 1

\* run_interactive_calibration has not been called
NoCalibration == [step |-> 0, answers |-> <<>>, performed |-> {}, ret |-> "None"]

NoMessage ==
    [kind |-> "none", type |-> "None", complete |-> FALSE, servo_id |-> 0,
     v |-> 0, groups |-> {}, fmt |-> "list"]

Init ==
    /\ is_connected = FALSE
    /\ port_handler = None
    /\ protocol_handler = NoHandler
    /\ connection_lock = NoThread
    /\ handles = <<>>
    /\ pc = [t \in Threads |-> "idle"]
    /\ call = [t \in Threads |-> [name |-> "none", protocol |-> "None"]]
    /\ retval = [t \in Threads |-> "None"]
    /\ op = NoOp
    /\ calls = <<>>
    /\ ret = NoRet
    /\ present_position = SMS_STS_MIDDLE_POSITION
    \* ServoPanel.__init__ has built the worker and called start()
    /\ worker = [running |-> TRUE, is_connected |-> FALSE, port |-> "none",
                 id_change_running |-> FALSE, pause_scanning |-> FALSE]
    /\ id_change_queue = <<>>
    /\ scanner = [t \in 1..MaxScanThreads |-> IF t = 1 THEN "s_begin" ELSE "none"]
    /\ processor = [t \in 1..MaxProcessors |-> [pc |-> "none", item |-> 0]]
    /\ child = "none"
    /\ submitted = 0
    /\ id_log = <<>>
    \* no server script has been started, no client has connected
    /\ server = [class |-> "none", is_connected |-> FALSE,
                 packet_handler |-> NoHandler, port |-> "none"]
    /\ session = [open |-> FALSE, prev |-> "none", data |-> NoMessage,
                  calls |-> <<>>, replies |-> <<>>]
    /\ mover = [pc |-> "idle", elapsed |-> 0, hasReadPos |-> FALSE]
    \* EZToolUI.__init__ has built both panes, each has started its worker
    /\ panels = [p \in Panes |->
                   [running |-> TRUE, is_connected |-> FALSE, port |-> "none",
                    id_change_running |-> FALSE, pause_scanning |-> FALSE,
                    scan |-> [t \in 1..MaxScanThreads |->
                                IF t = 1 THEN "s_begin" ELSE "none"]]]
    /\ quick = NoQuick
    /\ remote_worker = [running |-> FALSE, remote_process |-> "none"]
    \* StatusMonitor.__init__
    /\ monitor = [is_monitoring |-> FALSE, monitor_callbacks |-> <<>>,
                  monitor_thread |-> NoMonitorThread]
    /\ tick = <<>>
    /\ loops = [k \in 1..MaxEarlier |-> NoMonitorThread]
    \* no script has run; the servos on the bus hold their torque
    /\ calibrator = NoCalibration
    /\ torque_enable = [servo_id \in 1..6 |-> 1]
    /\ runs = <<>>

NextConn ==
    \E t \in Threads :
        \/ \E p \in ProtocolArgs : CallConnect(t, p)
        \/ CallDisconnect(t)
        \/ Acquire(t)
        \/ Step(t)
        \/ Release(t)

SpecConn == Init /\ [][NextConn]_vars

\* ------------------------------------------------------- transport call log
\* One logged transport call: what was called, and what the transport did
Call(fn, id, addr, data, o) ==
    [fn |-> fn, id |-> id, addr |-> addr, data |-> data, out |-> o]

\* What an operation did: the transport calls it made and what it returned
\* (raised: an exception left the operation)
Res(cs, value, result, error) ==
    [calls |-> cs, value |-> value, result |-> result, error |-> error, raised |-> FALSE]
Propagated(cs) ==
    [calls |-> cs, value |-> <<>>, result |-> ERROR_OPERATION_FAILED,
     error |-> "Exception", raised |-> TRUE]

InRange(lo, x, hi) == lo <= x /\ x <= hi

\* ----------------------------------------------- DataParser.int_to_bytes
Pow256(n) == CASE n = 0 -> 1 [] n = 1 -> 256 [] n = 2 -> 65536 [] OTHER -> 16777216
\* little-endian bytes of value: byte i is (value >> 8*i) & 0xFF (lines 70-73)
MaskBytes(value, n) == [i \in 1..n |-> (value \div Pow256(i - 1)) % 256]
\* the struct format's width: h/H for 2, i/I for 4, b/B otherwise (line 62)
PackWidth(length) == IF length = 2 THEN 2 ELSE IF length = 4 THEN 4 ELSE 1
\* struct.pack accepts the value (every modelled integer fits 32 signed bits)
Packable(value, w, signed) ==
    IF w = 4 THEN signed \/ value >= 0
    ELSE IF signed THEN InRange(-(Pow256(w) \div 2), value, Pow256(w) \div 2 - 1)
    ELSE InRange(0, value, Pow256(w) - 1)
int_to_bytes(value, length, signed) ==
    IF Packable(value, PackWidth(length), signed)
    THEN MaskBytes(value, PackWidth(length))
    ELSE MaskBytes(value, length)

\* ------------------------------------ ConnectionManager.ping / read / write
\* (variant: the connection state is not looked at)
AssumedConnected == FALSE
NotConnected == ~is_connected \/ protocol_handler = NoHandler

\* ping(servo_id): model_number is what the handler's ping returns with its
\* result; the value returned is <<model_number>>, or <<>> for None
ping(servo_id, o, model_number) ==
    IF NotConnected THEN Res(<<>>, <<>>, ERROR_OPERATION_FAILED, "NotConnected")
    ELSE LET c == Call("ping", servo_id, 0, <<model_number>>, o)
         IN IF o.raises THEN Res(<<c>>, <<>>, ERROR_OPERATION_FAILED, "Exception")
            ELSE Res(<<c>>, <<model_number>>, o.result, o.error)

read_memory(servo_id, address, length, o) ==
    IF NotConnected THEN Res(<<>>, <<>>, ERROR_OPERATION_FAILED, "NotConnected")
    ELSE LET c == Call("readTxRx", servo_id, address, <<length>>, o)
         IN IF o.raises THEN Res(<<c>>, <<>>, ERROR_OPERATION_FAILED, "Exception")
            ELSE Res(<<c>>, <<>>, o.result, o.error)

write_memory(servo_id, address, length, data, o) ==
    IF NotConnected THEN Res(<<>>, <<>>, ERROR_OPERATION_FAILED, "NotConnected")
    ELSE LET c == Call("writeTxRx", servo_id, address, data, o)
         IN IF o.raises THEN Res(<<c>>, <<>>, ERROR_OPERATION_FAILED, "Exception")
            ELSE Res(<<c>>, <<>>, o.result, o.error)

\* scan_servos(start_id, end_id): os[id] is what the ping of id does and
\* ms[id] the model number it returns
ServoInfo(servo_id, model_number) ==
    [id |-> servo_id, model_number |-> model_number, connected |-> TRUE]

\* (variant: every pinged id is listed, whatever its ping reported)
RECURSIVE ScanFromListsAll(_, _, _, _, _)
ScanFromListsAll(servo_id, end_id, os, ms, acc) ==
    IF servo_id > end_id THEN acc
    ELSE LET r == ping(servo_id, os[servo_id], ms[servo_id])
         IN ScanFromListsAll(servo_id + 1, end_id, os, ms,
                [acc EXCEPT !.calls = @ \o r.calls,
                            !.value = Append(@, ServoInfo(servo_id, ms[servo_id]))])

RECURSIVE ScanFrom(_, _, _, _, _)
ScanFrom(servo_id, end_id, os, ms, acc) ==
    IF servo_id > end_id THEN acc
    ELSE LET r == ping(servo_id, os[servo_id], ms[servo_id])
         IN ScanFrom(servo_id + 1, end_id, os, ms,
                     [acc EXCEPT !.calls = @ \o r.calls,
                                 !.value = IF r.result = COMM_SUCCESS
                                           THEN Append(@, ServoInfo(servo_id, r.value[1]))
                                           ELSE @])

scan_servos(start_id, end_id, os, ms) ==
    IF ~is_connected THEN Res(<<>>, <<>>, COMM_SUCCESS, "None")
    ELSE ScanFrom(start_id, end_id, os, ms, Res(<<>>, <<>>, COMM_SUCCESS, "None"))

\* self.connection.protocol_handler.<fn>(...): an absent handler raises
HandlerCall(fn, servo_id, addr, data, o) ==
    IF protocol_handler = NoHandler THEN [calls |-> <<>>, out |-> Raised]
    ELSE [calls |-> <<Call(fn, servo_id, addr, data, o)>>, out |-> o]

\* the except clause of a module operation: (ERROR_OPERATION_FAILED, str(e))
Caught(cs) == Res(cs, <<>>, ERROR_OPERATION_FAILED, "Exception")


\* ------------------------------------------------------------ BasicControl
\* write_position: hasEx is hasattr(protocol_handler, 'WritePosEx')
write_position(servo_id, position, speed, acceleration, hasEx, o) ==
    IF ~InRange(MIN_POSITION, position, MAX_POSITION)
        THEN Res(<<>>, <<>>, ERROR_INVALID_PARAMETER, "Invalid")
    ELSE IF ~InRange(MIN_SPEED, speed, MAX_SPEED)
        THEN Res(<<>>, <<>>, ERROR_INVALID_PARAMETER, "Invalid")
    ELSE IF ~InRange(MIN_ACCELERATION, acceleration, MAX_ACCELERATION)
        THEN Res(<<>>, <<>>, ERROR_INVALID_PARAMETER, "Invalid")
    ELSE IF protocol_handler # NoHandler /\ hasEx
        THEN LET c == Call("WritePosEx", servo_id, 0,
                           <<position, speed, acceleration, MAX_TORQUE>>, o[1])
             IN IF o[1].raises THEN Caught(<<c>>)
                ELSE Res(<<c>>, <<>>, o[1].result, o[1].error)
    ELSE write_memory(servo_id, GOAL_POSITION_L, 2, int_to_bytes(position, 2, FALSE), o[1])

Abs(x) == IF x < 0 THEN -x ELSE x

write_speed(servo_id, speed, o) ==
    IF Abs(speed) > MAX_SPEED THEN Res(<<>>, <<>>, ERROR_INVALID_PARAMETER, "Invalid")
    ELSE write_memory(servo_id, GOAL_SPEED_L, 2, int_to_bytes(speed, 2, TRUE), o[1])

enable_torque(servo_id, enable, o) ==
    write_memory(servo_id, TORQUE_ENABLE, 1, <<IF enable THEN 1 ELSE 0>>, o[1])

\* (variant: the upper limit itself is refused)
set_torque_limit_below_max(servo_id, torque_limit, o) ==
    IF ~(MIN_TORQUE <= torque_limit /\ torque_limit < MAX_TORQUE)
        THEN Res(<<>>, <<>>, ERROR_INVALID_PARAMETER, "Invalid")
    ELSE write_memory(servo_id, TORQUE_LIMIT_L, 2, int_to_bytes(torque_limit, 2, FALSE), o[1])

set_torque_limit(servo_id, torque_limit, o) ==
    IF ~InRange(MIN_TORQUE, torque_limit, MAX_TORQUE)
        THEN Res(<<>>, <<>>, ERROR_INVALID_PARAMETER, "Invalid")
    ELSE write_memory(servo_id, TORQUE_LIMIT_L, 2, int_to_bytes(torque_limit, 2, FALSE), o[1])

\* ----------------------------------------------------------- PIDController
write_position_pid(servo_id, p_gain, i_gain, d_gain, o) ==
    IF ~InRange(MIN_PID_GAIN, p_gain, MAX_PID_GAIN)
        THEN Res(<<>>, <<>>, ERROR_INVALID_PARAMETER, "Invalid")
    ELSE IF ~InRange(MIN_PID_GAIN, i_gain, MAX_PID_GAIN)
        THEN Res(<<>>, <<>>, ERROR_INVALID_PARAMETER, "Invalid")
    ELSE IF ~InRange(MIN_PID_GAIN, d_gain, MAX_PID_GAIN)
        THEN Res(<<>>, <<>>, ERROR_INVALID_PARAMETER, "Invalid")
    ELSE
    LET u == HandlerCall("unLockEprom", servo_id, 0, <<>>, o[1])
        p == write_memory(servo_id, POSITION_P_GAIN, 1, <<p_gain>>, o[2])
        i == write_memory(servo_id, POSITION_I_GAIN, 1, <<i_gain>>, o[3])
        d == write_memory(servo_id, POSITION_D_GAIN, 1, <<d_gain>>, o[4])
        k == HandlerCall("LockEprom", servo_id, 0, <<>>, o[5])
    IN  IF u.out.raises THEN Caught(u.calls)
        ELSE IF u.out.result # 0 THEN Res(u.calls, <<>>, u.out.result, u.out.error)
        ELSE IF p.result # 0 THEN Res(u.calls \o p.calls, <<>>, p.result, p.error)
        ELSE IF i.result # 0
            THEN Res(u.calls \o p.calls \o i.calls, <<>>, i.result, i.error)
        ELSE IF d.result # 0
            THEN Res(u.calls \o p.calls \o i.calls \o d.calls, <<>>, d.result, d.error)
        ELSE IF k.out.raises
            THEN Caught(u.calls \o p.calls \o i.calls \o d.calls \o k.calls)
        ELSE Res(u.calls \o p.calls \o i.calls \o d.calls \o k.calls, <<>>, 0, "None")

write_speed_pid(servo_id, p_gain, i_gain, o) ==
    IF ~InRange(MIN_PID_GAIN, p_gain, MAX_PID_GAIN)
        THEN Res(<<>>, <<>>, ERROR_INVALID_PARAMETER, "Invalid")
    ELSE IF ~InRange(-32768, i_gain, 32767)
        THEN Res(<<>>, <<>>, ERROR_INVALID_PARAMETER, "Invalid")
    ELSE
    LET u == HandlerCall("unLockEprom", servo_id, 0, <<>>, o[1])
        p == write_memory(servo_id, SPEED_P_GAIN, 1, <<p_gain>>, o[2])
        i == write_memory(servo_id, SPEED_I_GAIN_L, 2, int_to_bytes(i_gain, 2, TRUE), o[3])
        k == HandlerCall("LockEprom", servo_id, 0, <<>>, o[4])
    IN  IF u.out.raises THEN Caught(u.calls)
        ELSE IF u.out.result # 0 THEN Res(u.calls, <<>>, u.out.result, u.out.error)
        ELSE IF p.result # 0 THEN Res(u.calls \o p.calls, <<>>, p.result, p.error)
        ELSE IF i.result # 0
            THEN Res(u.calls \o p.calls \o i.calls, <<>>, i.result, i.error)
        ELSE IF k.out.raises THEN Caught(u.calls \o p.calls \o i.calls \o k.calls)
        ELSE Res(u.calls \o p.calls \o i.calls \o k.calls, <<>>, 0, "None")

\* (variant: the write is issued whatever the unlock reported)
write_startup_torque_unchecked(servo_id, startup_torque, o) ==
    IF ~InRange(MIN_STARTUP_TORQUE, startup_torque, MAX_STARTUP_TORQUE)
        THEN Res(<<>>, <<>>, ERROR_INVALID_PARAMETER, "Invalid")
    ELSE
    LET u == HandlerCall("unLockEprom", servo_id, 0, <<>>, o[1])
        w == write_memory(servo_id, STARTUP_TORQUE, 1, <<startup_torque>>, o[2])
        k == HandlerCall("LockEprom", servo_id, 0, <<>>, o[3])
    IN  IF u.out.raises THEN Caught(u.calls)
        ELSE IF k.out.raises THEN Caught(u.calls \o w.calls \o k.calls)
        ELSE Res(u.calls \o w.calls \o k.calls, <<>>, w.result, w.error)

write_startup_torque(servo_id, startup_torque, o) ==
    IF ~InRange(MIN_STARTUP_TORQUE, startup_torque, MAX_STARTUP_TORQUE)
        THEN Res(<<>>, <<>>, ERROR_INVALID_PARAMETER, "Invalid")
    ELSE
    LET u == HandlerCall("unLockEprom", servo_id, 0, <<>>, o[1])
        w == write_memory(servo_id, STARTUP_TORQUE, 1, <<startup_torque>>, o[2])
        k == HandlerCall("LockEprom", servo_id, 0, <<>>, o[3])
    IN  IF u.out.raises THEN Caught(u.calls)
        ELSE IF u.out.result # 0 THEN Res(u.calls, <<>>, u.out.result, u.out.error)
        ELSE IF k.out.raises THEN Caught(u.calls \o w.calls \o k.calls)
        ELSE Res(u.calls \o w.calls \o k.calls, <<>>, w.result, w.error)

\* ------------------------------------------------------------ SafetyManager
configure_temperature_limit(servo_id, temperature_limit, o) ==
    IF ~InRange(0, temperature_limit, 100)
        THEN Res(<<>>, <<>>, ERROR_INVALID_PARAMETER, "Invalid")
    ELSE
    LET u == HandlerCall("unLockEprom", servo_id, 0, <<>>, o[1])
        w == write_memory(servo_id, MAX_TEMPERATURE_LIMIT, 1, <<temperature_limit>>, o[2])
        k == HandlerCall("LockEprom", servo_id, 0, <<>>, o[3])
    IN  IF u.out.raises THEN Caught(u.calls)
        ELSE IF u.out.result # 0 THEN Res(u.calls, <<>>, u.out.result, u.out.error)
        ELSE IF k.out.raises THEN Caught(u.calls \o w.calls \o k.calls)
        ELSE Res(u.calls \o w.calls \o k.calls, <<>>, w.result, w.error)

\* (variant: a failed maximum write ends the call before the minimum write)
configure_voltage_limits_stops_at_max(servo_id, min_cv, max_cv, o) ==
    LET min_voltage_10 == min_cv \div 10
        max_voltage_10 == max_cv \div 10
    IN
    IF ~InRange(50, min_voltage_10, 250) \/ ~InRange(50, max_voltage_10, 250)
        THEN Res(<<>>, <<>>, ERROR_INVALID_PARAMETER, "Invalid")
    ELSE
    LET u == HandlerCall("unLockEprom", servo_id, 0, <<>>, o[1])
        w1 == write_memory(servo_id, MAX_INPUT_VOLTAGE, 1, <<max_voltage_10>>, o[2])
        w2 == write_memory(servo_id, MIN_INPUT_VOLTAGE, 1, <<min_voltage_10>>, o[3])
        k == HandlerCall("LockEprom", servo_id, 0, <<>>, o[4])
    IN  IF u.out.raises THEN Caught(u.calls)
        ELSE IF u.out.result # 0 THEN Res(u.calls, <<>>, u.out.result, u.out.error)
        ELSE IF w1.result # 0
            THEN IF k.out.raises THEN Caught(u.calls \o w1.calls \o k.calls)
                 ELSE Res(u.calls \o w1.calls \o k.calls, <<>>, w1.result, w1.error)
        ELSE IF k.out.raises THEN Caught(u.calls \o w1.calls \o w2.calls \o k.calls)
        ELSE Res(u.calls \o w1.calls \o w2.calls \o k.calls, <<>>, w2.result, w2.error)

\* voltages are given in hundredths of a volt; int(v * 10) truncates to tenths
configure_voltage_limits(servo_id, min_cv, max_cv, o) ==
    LET min_voltage_10 == min_cv \div 10
        max_voltage_10 == max_cv \div 10
    IN
    IF ~InRange(50, min_voltage_10, 250)
        THEN Res(<<>>, <<>>, ERROR_INVALID_PARAMETER, "Invalid")
    ELSE IF ~InRange(50, max_voltage_10, 250)
        THEN Res(<<>>, <<>>, ERROR_INVALID_PARAMETER, "Invalid")
    ELSE
    LET u == HandlerCall("unLockEprom", servo_id, 0, <<>>, o[1])
        w1 == write_memory(servo_id, MAX_INPUT_VOLTAGE, 1, <<max_voltage_10>>, o[2])
        w2 == write_memory(servo_id, MIN_INPUT_VOLTAGE, 1, <<min_voltage_10>>, o[3])
        k == HandlerCall("LockEprom", servo_id, 0, <<>>, o[4])
        cs == u.calls \o w1.calls \o w2.calls \o k.calls
    IN  IF u.out.raises THEN Caught(u.calls)
        ELSE IF u.out.result # 0 THEN Res(u.calls, <<>>, u.out.result, u.out.error)
        ELSE IF k.out.raises THEN Caught(cs)
        ELSE IF w1.result # 0 THEN Res(cs, <<>>, w1.result, w1.error)
        ELSE Res(cs, <<>>, w2.result, w2.error)

\* ----------------------------------------------------------- HardwareConfig
\* (variant: the lock is addressed to the ID just written)
set_servo_id_locks_new_id(current_id, new_id, o) ==
    IF ~InRange(1, new_id, 253) THEN Res(<<>>, <<>>, ERROR_INVALID_PARAMETER, "Invalid")
    ELSE
    LET u == HandlerCall("unLockEprom", current_id, 0, <<>>, o[1])
        w == write_memory(current_id, ADDR_ID, 1, <<new_id>>, o[2])
        k == HandlerCall("LockEprom", new_id, 0, <<>>, o[3])
    IN  IF u.out.raises THEN Caught(u.calls)
        ELSE IF u.out.result # 0 THEN Res(u.calls, <<>>, u.out.result, u.out.error)
        ELSE IF k.out.raises THEN Caught(u.calls \o w.calls \o k.calls)
        ELSE Res(u.calls \o w.calls \o k.calls,
                 IF w.result = 0 THEN <<1>> ELSE <<>>, w.result, w.error)

\* set_servo_id(current_id, new_id): returns (result, error); value is <<1>>
\* when the success line was written to the log
set_servo_id(current_id, new_id, o) ==
    IF ~InRange(1, new_id, 253) THEN Res(<<>>, <<>>, ERROR_INVALID_PARAMETER, "Invalid")
    ELSE
    LET u == HandlerCall("unLockEprom", current_id, 0, <<>>, o[1])
        w == write_memory(current_id, ADDR_ID, 1, <<new_id>>, o[2])
        k == HandlerCall("LockEprom", current_id, 0, <<>>, o[3])
    IN  IF u.out.raises THEN Caught(u.calls)
        ELSE IF u.out.result # 0 THEN Res(u.calls, <<>>, u.out.result, u.out.error)
        ELSE IF k.out.raises THEN Caught(u.calls \o w.calls \o k.calls)
        ELSE Res(u.calls \o w.calls \o k.calls,
                 IF w.result = 0 THEN <<1>> ELSE <<>>, w.result, w.error)


\* ------------------------------------------- PIDController.set_pid_params
\* A Python argument that is None, a list or a dictionary: its keys (a list's
\* indices "0", "1", ...) and the value at each
PyNone == [kind |-> "none", keys |-> {}, val |-> <<>>]
PyList2(a, b) == [kind |-> "list", keys |-> {"0", "1"},
                  val |-> [x \in {"0", "1"} |-> IF x = "0" THEN a ELSE b]]
PyList3(a, b, c) == [kind |-> "list", keys |-> {"0", "1", "2"},
                     val |-> [x \in {"0", "1", "2"} |->
                                 IF x = "0" THEN a ELSE IF x = "1" THEN b ELSE c]]
PyDict(rec) == [kind |-> "dict", keys |-> DOMAIN rec, val |-> rec]
PyInt(n) == [kind |-> "int", v |-> n]
Truthy(c) == c.kind # "none" /\ c.keys # {}
PyLen(c) == Cardinality(c.keys)
\* c[0], c[1], ... raises (IndexError, KeyError) when the key is absent
SubscriptRaises(c, ks) == ~(ks \subseteq c.keys)

Nothing == Res(<<>>, <<>>, COMM_SUCCESS, "None")

\* (variant: the first group that fails ends the call)
set_pid_params_stops_at_failure(servo_id, position_pid, speed_pid, startup_torque, o) ==
    LET doPos == Truthy(position_pid) /\ PyLen(position_pid) = 3
        doSpd == Truthy(speed_pid) /\ PyLen(speed_pid) = 2
        pos == IF doPos
               THEN write_position_pid(servo_id, position_pid.val["0"],
                        position_pid.val["1"], position_pid.val["2"], SubSeq(o, 1, 5))
               ELSE Nothing
        spd == IF doSpd
               THEN write_speed_pid(servo_id, speed_pid.val["0"], speed_pid.val["1"],
                                    SubSeq(o, 6, 9))
               ELSE Nothing
        trq == IF startup_torque.kind # "none"
               THEN write_startup_torque(servo_id, startup_torque.v, SubSeq(o, 10, 12))
               ELSE Nothing
    IN  IF doPos /\ SubscriptRaises(position_pid, {"0", "1", "2"}) THEN Propagated(<<>>)
        ELSE IF pos.result # 0 THEN Res(pos.calls, <<0>>, COMM_SUCCESS, "None")
        ELSE IF doSpd /\ SubscriptRaises(speed_pid, {"0", "1"}) THEN Propagated(pos.calls)
        ELSE IF spd.result # 0 THEN Res(pos.calls \o spd.calls, <<0>>, COMM_SUCCESS, "None")
        ELSE Res(pos.calls \o spd.calls \o trq.calls,
                 <<IF trq.result = 0 THEN 1 ELSE 0>>, COMM_SUCCESS, "None")

\* o: outcomes 1-5 for the position PID, 6-9 for the speed PID, 10-12 for the
\* startup torque
set_pid_params(servo_id, position_pid, speed_pid, startup_torque, o) ==
    LET doPos == Truthy(position_pid) /\ PyLen(position_pid) = 3
        posRaises == doPos /\ SubscriptRaises(position_pid, {"0", "1", "2"})
        pos == IF doPos
               THEN write_position_pid(servo_id, position_pid.val["0"],
                        position_pid.val["1"], position_pid.val["2"], SubSeq(o, 1, 5))
               ELSE Nothing
        doSpd == Truthy(speed_pid) /\ PyLen(speed_pid) = 2
        spdRaises == doSpd /\ SubscriptRaises(speed_pid, {"0", "1"})
        spd == IF doSpd
               THEN write_speed_pid(servo_id, speed_pid.val["0"], speed_pid.val["1"],
                                    SubSeq(o, 6, 9))
               ELSE Nothing
        trq == IF startup_torque.kind # "none"
               THEN write_startup_torque(servo_id, startup_torque.v, SubSeq(o, 10, 12))
               ELSE Nothing
    IN  IF posRaises THEN Propagated(<<>>)
        ELSE IF spdRaises THEN Propagated(pos.calls)
        ELSE Res(pos.calls \o spd.calls \o trq.calls,
                 <<IF pos.result = 0 /\ spd.result = 0 /\ trq.result = 0 THEN 1 ELSE 0>>,
                 COMM_SUCCESS, "None")

reset_pid_to_default(servo_id, o) ==
    set_pid_params(servo_id, PyDict(DEFAULT_POSITION_PID), PyDict(DEFAULT_SPEED_PID),
                   PyInt(DEFAULT_STARTUP_TORQUE), o)


\* ------------------------------------------------- calibrate-center primitive
\* (variant: a failed write returns without the lock)
write_middle_offset_no_relock(servo_id, o) ==
    LET u == Call("unLockEprom", servo_id, 0, <<>>, o[1])
        w == Call("write1ByteTxRx", servo_id, SMS_STS_TORQUE_ENABLE,
                  <<SMS_STS_CALIBRATE_MIDDLE_VALUE>>, o[2])
        k == Call("LockEprom", servo_id, 0, <<>>, o[3])
    IN  IF o[1].raises \/ o[1].result # COMM_SUCCESS
            THEN Res(<<u>>, <<0>>, COMM_SUCCESS, "None")
        ELSE IF o[2].raises \/ o[2].result # COMM_SUCCESS
            THEN Res(<<u, w>>, <<0>>, COMM_SUCCESS, "None")
        ELSE Res(<<u, w, k>>, <<1>>, COMM_SUCCESS, "None")

\* MiddleValueCalibrator.write_middle_offset(servo_id): value is <<1>> for True
write_middle_offset(servo_id, o) ==
    LET u == Call("unLockEprom", servo_id, 0, <<>>, o[1])
        w == Call("write1ByteTxRx", servo_id, SMS_STS_TORQUE_ENABLE,
                  <<SMS_STS_CALIBRATE_MIDDLE_VALUE>>, o[2])
        k == Call("LockEprom", servo_id, 0, <<>>, o[3])
    IN  IF o[1].raises THEN Res(<<u>>, <<0>>, COMM_SUCCESS, "None")
        ELSE IF o[1].result # COMM_SUCCESS THEN Res(<<u>>, <<0>>, COMM_SUCCESS, "None")
        ELSE IF o[2].raises THEN Res(<<u, w>>, <<0>>, COMM_SUCCESS, "None")
        ELSE IF o[2].result # COMM_SUCCESS
            THEN Res(<<u, w, k>>, <<0>>, COMM_SUCCESS, "None")
        ELSE Res(<<u, w, k>>, <<1>>, COMM_SUCCESS, "None")

\* quick_middle_calibration: the body of the calibration loop for one servo;
\* value is <<1>> when the servo is counted as calibrated, raised when the
\* exception ends the batch (caught at line 95)
quick_calibrate_servo(servo_id, o) ==
    LET u == Call("unLockEprom", servo_id, 0, <<>>, o[1])
        w == Call("write1ByteTxRx", servo_id, SMS_STS_TORQUE_ENABLE,
                  <<SMS_STS_CALIBRATE_MIDDLE_VALUE>>, o[2])
        k == Call("LockEprom", servo_id, 0, <<>>, o[3])
    IN  IF o[1].raises THEN Propagated(<<u>>)
        ELSE IF o[1].result # COMM_SUCCESS THEN Res(<<u>>, <<0>>, COMM_SUCCESS, "None")
        ELSE IF o[2].raises THEN Propagated(<<u, w>>)
        ELSE IF o[2].result # COMM_SUCCESS
            THEN IF o[3].raises THEN Propagated(<<u, w, k>>)
                 ELSE Res(<<u, w, k>>, <<0>>, COMM_SUCCESS, "None")
        ELSE IF o[3].raises THEN Propagated(<<u, w, k>>)
        ELSE Res(<<u, w, k>>, <<1>>, COMM_SUCCESS, "None")

\* ------------------------------------------------------------------ actions
\* An operation called by the single caller of the control modules
Do(name, id, args, r) ==
    /\ op' = [name |-> name, id |-> id, args |-> args]
    /\ calls' = r.calls
    /\ ret' = [value |-> r.value, result |-> r.result, error |-> r.error,
               raised |-> r.raised]

Ok == Returned(COMM_SUCCESS, "None")
Vec(n) == [1..n -> Outcomes]
\* the transport calls of one operation: at most one of the n does not succeed
OneFault(n) == {[k \in 1..n |-> IF k = j THEN b ELSE Ok] : j \in 1..n, b \in Outcomes}

Bool(b) == IF b = "True" THEN <<1>> ELSE IF b = "False" THEN <<0>> ELSE <<>>

\* the caller has taken the previous operation's result and makes the next call
Idle == op = NoOp

TakeResult ==
    /\ op # NoOp
    /\ mover.pc = "idle"
    /\ op' = NoOp /\ calls' = <<>> /\ ret' = NoRet
    /\ mover' = [pc |-> "idle", elapsed |-> 0, hasReadPos |-> FALSE]
    /\ UNCHANGED <<srvVars, connVars, toolVars, thrVars, present_position, guiVars>>

Connect ==
    /\ Idle
    /\ Len(handles) < MaxHandles
    /\ \E protocol \in ProtocolArgs, o \in ConnOutcomes :
         LET n == RunConnect("c_check", Conn, protocol, o)
         IN /\ SetConn(n.s)
            /\ Do("connect", 0, <<>>, Res(<<>>, Bool(n.r), COMM_SUCCESS, "None"))
    /\ UNCHANGED <<srvVars, mover, toolVars, thrVars, present_position, guiVars>>

Disconnect ==
    /\ Idle
    /\ LET n == RunDisconnect("d_check", Conn)
       IN /\ SetConn(n.s)
          /\ Do("disconnect", 0, <<>>, Res(<<>>, <<>>, COMM_SUCCESS, "None"))
    /\ UNCHANGED <<srvVars, mover, toolVars, thrVars, present_position, guiVars>>

\* reset_connection(): disconnect(), sleep, connect() with its default
\* protocol 'hls'; the protocol in use before the reset is kept as the
\* argument of the logged operation
ResetConnection ==
    /\ Idle
    /\ Len(handles) < MaxHandles
    /\ \E o \in ConnOutcomes :
         LET d == RunDisconnect("d_check", Conn)
             n == RunConnect("c_check", d.s, "hls", o)
         IN /\ SetConn(n.s)
            /\ Do("reset_connection", 0,
                  <<IF is_connected THEN protocol_handler ELSE NoHandler>>,
                  Res(<<>>, Bool(n.r), COMM_SUCCESS, "None"))
    /\ UNCHANGED <<srvVars, mover, toolVars, thrVars, present_position, guiVars>>

Keep == UNCHANGED <<srvVars, mover, toolVars, connVars, thrVars, present_position, guiVars>>

\* model numbers a servo's ping answers with
ModelNumbers == {0, 777}

Ping ==
    /\ Idle
    /\ \E id \in ServoIds, o \in Outcomes, mn \in ModelNumbers :
         Do("ping", id, <<>>, ping(id, o, mn))
    /\ Keep

ReadMemory ==
    /\ Idle
    /\ \E id \in ServoIds, a \in {ADDR_ID}, n \in {1, 2}, o \in Outcomes :
         Do("read_memory", id, <<a, n>>, read_memory(id, a, n, o))
    /\ Keep

WriteMemory ==
    /\ Idle
    /\ \E id \in ServoIds, a \in {TORQUE_ENABLE}, v \in {0, 1}, o \in Outcomes :
         Do("write_memory", id, <<a, 1, v>>, write_memory(id, a, 1, <<v>>, o))
    /\ Keep

ScanIds == 1..(MaxServoId + 1)
ScanServos ==
    /\ Idle
    /\ \E start_id \in {1, 2}, os \in [ScanIds -> Outcomes], ms \in [ScanIds -> ModelNumbers] :
         Do("scan_servos", 0, <<start_id, MaxServoId + 1>>,
            scan_servos(start_id, MaxServoId + 1, os, ms))
    /\ Keep

Around(lo, hi) == {lo - 1, lo, hi, hi + 1}
\* argument tuples that differ from a valid one in a single argument
Vary2(a, A, b, B) == {<<x, b>> : x \in A} \cup {<<a, y>> : y \in B}
Vary3(a, A, b, B, c, C) ==
    {<<x, b, c>> : x \in A} \cup {<<a, y, c>> : y \in B} \cup {<<a, b, z>> : z \in C}

PositionArgs ==
    Vary3(MIN_POSITION, Around(MIN_POSITION, MAX_POSITION),
          MIN_SPEED, Around(MIN_SPEED, MAX_SPEED),
          MIN_ACCELERATION, Around(MIN_ACCELERATION, MAX_ACCELERATION))
WritePosition ==
    /\ Idle
    /\ \E id \in ServoIds, a \in PositionArgs, hasEx \in BOOLEAN, o \in Vec(1) :
         Do("write_position", id, a, write_position(id, a[1], a[2], a[3], hasEx, o))
    /\ Keep

WriteSpeed ==
    /\ Idle
    /\ \E id \in ServoIds, speed \in Around(-MAX_SPEED, MAX_SPEED), o \in Vec(1) :
         Do("write_speed", id, <<speed>>, write_speed(id, speed, o))
    /\ Keep

EnableTorque ==
    /\ Idle
    /\ \E id \in ServoIds, enable \in BOOLEAN, o \in Vec(1) :
         Do("enable_torque", id, <<IF enable THEN 1 ELSE 0>>, enable_torque(id, enable, o))
    /\ Keep

SetTorqueLimit ==
    /\ Idle
    /\ \E id \in ServoIds, limit \in Around(MIN_TORQUE, MAX_TORQUE), o \in Vec(1) :
         Do("set_torque_limit", id, <<limit>>, set_torque_limit(id, limit, o))
    /\ Keep

Gains == Around(MIN_PID_GAIN, MAX_PID_GAIN)
PositionPidArgs ==
    Vary3(DEFAULT_POSITION_PID.P, Gains, DEFAULT_POSITION_PID.I, Gains,
          DEFAULT_POSITION_PID.D, Gains)
WritePositionPid ==
    /\ Idle
    /\ \E id \in ServoIds, a \in PositionPidArgs :
         \E o \in IF \A k \in 1..3 : InRange(MIN_PID_GAIN, a[k], MAX_PID_GAIN) THEN Vec(5) ELSE OneFault(5) :
            Do("write_position_pid", id, a, write_position_pid(id, a[1], a[2], a[3], o))
    /\ Keep

SpeedPidArgs ==
    Vary2(DEFAULT_SPEED_PID.P, Gains, DEFAULT_SPEED_PID.I, Around(-32768, 32767))
WriteSpeedPid ==
    /\ Idle
    /\ \E id \in ServoIds, a \in SpeedPidArgs :
         \E o \in IF InRange(MIN_PID_GAIN, a[1], MAX_PID_GAIN) /\ InRange(-32768, a[2], 32767)
                  THEN Vec(4) ELSE OneFault(4) :
            Do("write_speed_pid", id, a, write_speed_pid(id, a[1], a[2], o))
    /\ Keep

WriteStartupTorque ==
    /\ Idle
    /\ \E id \in ServoIds, t \in Around(MIN_STARTUP_TORQUE, MAX_STARTUP_TORQUE),
          o \in Vec(3) :
         Do("write_startup_torque", id, <<t>>, write_startup_torque(id, t, o))
    /\ Keep

ConfigureTemperatureLimit ==
    /\ Idle
    /\ \E id \in ServoIds, t \in Around(0, 100), o \in Vec(3) :
         Do("configure_temperature_limit", id, <<t>>, configure_temperature_limit(id, t, o))
    /\ Keep

\* hundredths of a volt around the two limits of the accepted range
CentiVolts == {499, 500, 2509, 2510}
ConfigureVoltageLimits ==
    /\ Idle
    /\ \E id \in ServoIds, lo \in CentiVolts, hi \in CentiVolts :
         \E o \in IF {lo, hi} \subseteq {500, 2509} THEN Vec(4) ELSE OneFault(4) :
            Do("configure_voltage_limits", id, <<lo, hi>>,
               configure_voltage_limits(id, lo, hi, o))
    /\ Keep

SetServoId ==
    /\ Idle
    /\ \E id \in ServoIds, new \in Around(1, 253), o \in Vec(3) :
         Do("set_servo_id", id, <<new>>, set_servo_id(id, new, o))
    /\ Keep

\* set_pid_params called with lists (or None) for the two PID groups
SetPidArgs ==
    {PyNone, PyList3(32, 0, 32), PyList3(32, 0, 256), PyList2(32, 0)}
        \X {PyNone, PyList2(10, 200)}
        \X {[kind |-> "none", v |-> 0], PyInt(DEFAULT_STARTUP_TORQUE)}
SetPidParams ==
    /\ Idle
    /\ \E id \in ServoIds, a \in SetPidArgs, o \in OneFault(12) :
         Do("set_pid_params", id,
            <<PyLen(a[1]), PyLen(a[2]), IF a[3].kind = "none" THEN 0 ELSE 1,
              IF PyLen(a[1]) = 3 THEN a[1].val["2"] ELSE 0>>,
            set_pid_params(id, a[1], a[2], a[3], o))
    /\ Keep

ResetPidToDefault ==
    /\ Idle
    /\ \E id \in ServoIds, o \in OneFault(12) :
         Do("reset_pid_to_default", id, <<>>, reset_pid_to_default(id, o))
    /\ Keep

\* ------------------------------------------------ PIDController read operations
\* One read_memory of n bytes inside a PID read: the calls made, whether it
\* gave data (result 0 and a non-empty buffer), every byte read being v
ReadBytes(servo_id, address, n, v, o) ==
    LET r == read_memory(servo_id, address, n, o)
    IN [calls |-> r.calls, ok |-> r.result = 0, data |-> [i \in 1..n |-> v]]

\* read_position_pid: value is [P, I, D]; the unlock's and the lock's results
\* are assigned and not looked at
read_position_pid(servo_id, v, o) ==
    LET u == HandlerCall("unLockEprom", servo_id, 0, <<>>, o[1])
        p == ReadBytes(servo_id, POSITION_P_GAIN, 1, v, o[2])
        i == ReadBytes(servo_id, POSITION_I_GAIN, 1, v, o[3])
        d == ReadBytes(servo_id, POSITION_D_GAIN, 1, v, o[4])
        k == HandlerCall("LockEprom", servo_id, 0, <<>>, o[5])
        cs == u.calls \o p.calls \o i.calls \o d.calls \o k.calls
    IN  IF u.out.raises THEN Res(u.calls, <<>>, -1, "Exception")
        ELSE IF k.out.raises THEN Res(cs, <<>>, -1, "Exception")
        ELSE IF p.ok /\ i.ok /\ d.ok
            THEN Res(cs, <<p.data[1], i.data[1], d.data[1]>>, 0, "None")
        ELSE Res(cs, <<>>, -1, "ReadFailed")

\* read_speed_pid: value is [P, I], I the signed little-endian word
read_speed_pid(servo_id, v, o) ==
    LET u == HandlerCall("unLockEprom", servo_id, 0, <<>>, o[1])
        p == ReadBytes(servo_id, SPEED_P_GAIN, 1, v, o[2])
        i == ReadBytes(servo_id, SPEED_I_GAIN_L, 2, v, o[3])
        k == HandlerCall("LockEprom", servo_id, 0, <<>>, o[4])
        cs == u.calls \o p.calls \o i.calls \o k.calls
        w == i.data[1] + 256 * i.data[2]
    IN  IF u.out.raises THEN Res(u.calls, <<>>, -1, "Exception")
        ELSE IF k.out.raises THEN Res(cs, <<>>, -1, "Exception")
        ELSE IF p.ok /\ i.ok
            THEN Res(cs, <<p.data[1], IF w >= 32768 THEN w - 65536 ELSE w>>, 0, "None")
        ELSE Res(cs, <<>>, -1, "ReadFailed")

\* read_startup_torque: the read's own result and error are returned
read_startup_torque(servo_id, v, o) ==
    LET u == HandlerCall("unLockEprom", servo_id, 0, <<>>, o[1])
        t == read_memory(servo_id, STARTUP_TORQUE, 1, o[2])
        k == HandlerCall("LockEprom", servo_id, 0, <<>>, o[3])
        cs == u.calls \o t.calls \o k.calls
    IN  IF u.out.raises THEN Res(u.calls, <<>>, -1, "Exception")
        ELSE IF k.out.raises THEN Res(cs, <<>>, -1, "Exception")
        ELSE Res(cs, IF t.result = 0 THEN <<v>> ELSE <<>>, t.result, t.error)

ReadPositionPid ==
    /\ Idle
    /\ \E id \in ServoIds, v \in {0, 200}, o \in OneFault(5) :
         Do("read_position_pid", id, <<>>, read_position_pid(id, v, o))
    /\ Keep

ReadSpeedPid ==
    /\ Idle
    /\ \E id \in ServoIds, v \in {0, 200}, o \in OneFault(4) :
         Do("read_speed_pid", id, <<>>, read_speed_pid(id, v, o))
    /\ Keep

ReadStartupTorque ==
    /\ Idle
    /\ \E id \in ServoIds, v \in {0, 200}, o \in Vec(3) :
         Do("read_startup_torque", id, <<>>, read_startup_torque(id, v, o))
    /\ Keep

Next ==
    \/ Connect
    \/ Disconnect
    \/ ResetConnection
    \/ ReadPositionPid
    \/ ReadSpeedPid
    \/ ReadStartupTorque
    \/ Ping
    \/ ReadMemory
    \/ WriteMemory
    \/ ScanServos
    \/ WritePosition
    \/ WriteSpeed
    \/ EnableTorque
    \/ SetTorqueLimit
    \/ WritePositionPid
    \/ WriteSpeedPid
    \/ WriteStartupTorque
    \/ ConfigureTemperatureLimit
    \/ ConfigureVoltageLimits
    \/ SetServoId
    \/ SetPidParams
    \/ ResetPidToDefault
    \/ TakeResult

Spec == Init /\ [][Next]_vars

\* ------------------------------------------------ the calibration bench
BenchIds == 1..2
BenchPositions == {0, SMS_STS_MIDDLE_POSITION, 4095}

\* the operator turns the (torque-free) servo by hand
TurnServo ==
    /\ \E p \in BenchPositions : present_position' = p
    /\ UNCHANGED <<srvVars, mover, toolVars, connVars, thrVars, opVars, guiVars>>

WriteMiddleOffset ==
    /\ \E id \in BenchIds, o \in Vec(3) :
         Do("write_middle_offset", id, <<>>, write_middle_offset(id, o))
    /\ UNCHANGED <<srvVars, mover, toolVars, connVars, thrVars, present_position, guiVars>>

QuickCalibrateServo ==
    /\ \E id \in BenchIds, o \in Vec(3) :
         Do("quick_calibrate_servo", id, <<>>, quick_calibrate_servo(id, o))
    /\ UNCHANGED <<srvVars, mover, toolVars, connVars, thrVars, present_position, guiVars>>

NextCal == TurnServo \/ WriteMiddleOffset \/ QuickCalibrateServo

SpecCal == Init /\ [][NextCal]_vars


\* --------------------------------- factory_calibration_tool.py: ServoWorker
\* connect_servo(): a new PortHandler replaces the old one; ok is whether
\* openPort and setBaudRate both succeed
connect_servo(w, ok) ==
    IF ok THEN [w EXCEPT !.port = "open", !.is_connected = TRUE]
    ELSE [w EXCEPT !.port = "closed"]

disconnect_servo(w) ==
    IF w.port # "none" THEN [w EXCEPT !.port = "closed", !.is_connected = FALSE]
    ELSE w

\* stop(): the join of the ID-change thread (timeout 2 s) changes no field
stop(w) == disconnect_servo([w EXCEPT !.running = FALSE, !.id_change_running = FALSE])

FreeScanner == {t \in 1..MaxScanThreads : scanner[t] = "none"}
FreeProcessor == {t \in 1..MaxProcessors : processor[t].pc = "none"}

\* One step of a thread running run_scanner()
ScanStep(t) ==
    /\ scanner[t] # "none"
    /\ \/ /\ scanner[t] = "s_begin"
          /\ \E ok \in BOOLEAN :
               worker' = IF worker.is_connected THEN [worker EXCEPT !.running = TRUE]
                         ELSE connect_servo([worker EXCEPT !.running = TRUE], ok)
          /\ scanner' = [scanner EXCEPT ![t] = "s_while"]
       \/ /\ scanner[t] = "s_while"
          /\ scanner' = [scanner EXCEPT ![t] = IF worker.running THEN "s_check" ELSE "none"]
          /\ UNCHANGED worker
       \/ /\ scanner[t] = "s_check"
          /\ scanner' = [scanner EXCEPT ![t] =
                            IF ~worker.is_connected THEN "s_retry"
                            ELSE IF worker.pause_scanning THEN "s_while"
                            ELSE "s_scan"]
          /\ UNCHANGED worker
       \/ /\ scanner[t] = "s_retry"
          /\ \E ok \in BOOLEAN : worker' = connect_servo(worker, ok)
          /\ scanner' = [scanner EXCEPT ![t] = "s_while"]
       \/ /\ scanner[t] = "s_scan"
          /\ scanner' = [scanner EXCEPT ![t] = "s_while"]
          /\ UNCHANGED worker
    /\ UNCHANGED <<srvVars, mover, toolVars, connVars, thrVars, opVars, present_position,
                   id_change_queue, processor, child, submitted, id_log>>

Event(ev, r) == [ev |-> ev, r |-> r]

\* (variant: the flag is left set after a request)
stay_paused(w) == w

\* process_id_changes after execute_id_change has returned: scanning resumes
resume_scanning(w) == [w EXCEPT !.pause_scanning = FALSE]

\* One step of a thread running process_id_changes()
ProcStep(t) ==
    LET me == processor[t]
        at(l) == [processor EXCEPT ![t].pc = l]
    IN
    /\ me.pc # "none"
    /\ \/ /\ me.pc = "p_while"
          /\ processor' = at(IF worker.id_change_running \/ id_change_queue # <<>>
                             THEN "p_empty" ELSE "p_end")
          /\ UNCHANGED <<worker, id_change_queue, id_log>>
       \/ /\ me.pc = "p_empty"
          /\ processor' = at(IF id_change_queue # <<>> THEN "p_get" ELSE "p_while")
          /\ UNCHANGED <<worker, id_change_queue, id_log>>
       \/ /\ me.pc = "p_get"
          /\ IF id_change_queue = <<>>
             THEN /\ worker' = [worker EXCEPT !.pause_scanning = FALSE]
                  /\ processor' = at("p_while")
                  /\ UNCHANGED id_change_queue
             ELSE /\ worker' = [worker EXCEPT !.pause_scanning = TRUE]
                  /\ processor' = [processor EXCEPT
                                     ![t] = [pc |-> "p_exec", item |-> Head(id_change_queue)]]
                  /\ id_change_queue' = Tail(id_change_queue)
          /\ UNCHANGED id_log
       \/ /\ me.pc = "p_exec"
          /\ IF worker.is_connected
             THEN /\ id_log' = Append(id_log, Event("begin", me.item))
                  /\ processor' = at("p_bus")
             ELSE /\ id_log' = id_log \o <<Event("begin", me.item), Event("end", me.item)>>
                  /\ processor' = at("p_resume")
          /\ UNCHANGED <<worker, id_change_queue>>
       \/ /\ me.pc = "p_bus"
          /\ id_log' = Append(id_log, Event("end", me.item))
          /\ processor' = at("p_resume")
          /\ UNCHANGED <<worker, id_change_queue>>
       \/ /\ me.pc = "p_resume"
          /\ worker' = resume_scanning(worker)
          /\ processor' = at("p_while")
          /\ UNCHANGED <<id_change_queue, id_log>>
       \/ /\ me.pc = "p_end"
          /\ worker' = [worker EXCEPT !.id_change_running = FALSE, !.pause_scanning = FALSE]
          /\ processor' = [processor EXCEPT ![t] = [pc |-> "none", item |-> 0]]
          /\ UNCHANGED <<id_change_queue, id_log>>
    /\ UNCHANGED <<srvVars, mover, toolVars, connVars, thrVars, opVars, present_position, scanner, child, submitted>>

\* change_servo_id(old_id, new_id), called on the GUI thread: queue_id_change
\* and, when no processor is flagged running, start_id_change_processor
ChangeServoId ==
    /\ submitted < MaxRequests
    /\ worker.id_change_running \/ FreeProcessor # {}
    /\ submitted' = submitted + 1
    /\ id_change_queue' = Append(id_change_queue, submitted + 1)
    /\ IF worker.id_change_running
       THEN UNCHANGED <<worker, processor>>
       ELSE /\ worker' = [worker EXCEPT !.id_change_running = TRUE]
            /\ \E t \in FreeProcessor :
                 processor' = [processor EXCEPT ![t] = [pc |-> "p_while", item |-> 0]]
    /\ UNCHANGED <<srvVars, mover, toolVars, connVars, thrVars, opVars, present_position, scanner, child, id_log>>

\* EZToolUI.run_quick_calibration(port_name) on the GUI thread
RunQuickCalibration ==
    /\ child = "none"
    /\ worker' = IF worker.is_connected THEN stop(worker) ELSE worker
    /\ child' = "launched"
    /\ UNCHANGED <<srvVars, mover, toolVars, connVars, thrVars, opVars, present_position,
                   id_change_queue, scanner, processor, submitted, id_log>>

\* the calibration script opens the pane's port, or fails to
ChildConnects ==
    /\ child = "launched"
    /\ \E ok \in BOOLEAN : child' = IF ok THEN "holding" ELSE "failed"
    /\ UNCHANGED <<srvVars, mover, toolVars, connVars, thrVars, opVars, present_position,
                   worker, id_change_queue, scanner, processor, submitted, id_log>>

ChildExits ==
    /\ child \in {"holding", "failed"}
    /\ child' = "exited"
    /\ UNCHANGED <<srvVars, mover, toolVars, connVars, thrVars, opVars, present_position,
                   worker, id_change_queue, scanner, processor, submitted, id_log>>

\* _execute_quick_calibration after process.wait(): worker.start()
RestartWorker ==
    /\ child = "exited"
    /\ worker.running \/ FreeScanner # {}
    /\ child' = "none"
    /\ IF worker.running
       THEN UNCHANGED <<worker, scanner>>
       ELSE /\ worker' = [worker EXCEPT !.running = TRUE]
            /\ \E t \in FreeScanner : scanner' = [scanner EXCEPT ![t] = "s_begin"]
    /\ UNCHANGED <<srvVars, mover, toolVars, connVars, thrVars, opVars, present_position,
                   id_change_queue, processor, submitted, id_log>>

NextGui ==
    \/ \E t \in 1..MaxScanThreads : ScanStep(t)
    \/ \E t \in 1..MaxProcessors : ProcStep(t)
    \/ ChangeServoId
    \/ RunQuickCalibration
    \/ ChildConnects
    \/ ChildExits
    \/ RestartWorker

SpecGui == Init /\ [][NextGui]_vars

\* The pane with its first scan thread, its ID-change threads, the requests
\* and the stop() of a quick action. Threads are scheduled: a scan thread or an
\* ID-change thread that can take a step eventually takes it; the user's
\* clicks are not forced
NextPause ==
    \/ ScanStep(1)
    \/ \E t \in 1..MaxProcessors : ProcStep(t)
    \/ ChangeServoId
    \/ RunQuickCalibration

SpecPause ==
    /\ Init
    /\ [][NextPause]_vars
    /\ \A t \in 1..MaxScanThreads : WF_vars(ScanStep(t))
    /\ \A t \in 1..MaxProcessors : WF_vars(ProcStep(t))

\* ------------- factory_calibration_tool.py: ServoWorker.execute_id_change
\* what execute_id_change returns: (success, message)
IdChange(cs, success, message) == Res(cs, <<IF success THEN 1 ELSE 0>>, COMM_SUCCESS, message)

\* execute_id_change(old_id, new_id) on worker w; o[k] is what the k-th
\* transport call does. ping_servo(new_id) turns a raising ping into False;
\* an unlock, write or lock that raises is caught by the outer except clause
execute_id_change(w, old_id, new_id, o) ==
    LET p == Call("ping", old_id, 0, <<>>, o[1])
        u == Call("unLockEprom", old_id, 0, <<>>, o[2])
        i == Call("write1ByteTxRx", old_id, 5, <<new_id>>, o[3])
        q == Call("ping", new_id, 0, <<>>, o[4])
        k == Call("LockEprom", new_id, 0, <<>>, o[5])
    IN  IF ~w.is_connected THEN IdChange(<<>>, FALSE, "not connected")
        ELSE IF o[1].raises THEN IdChange(<<p>>, FALSE, "servo info exception")
        ELSE IF o[1].result # COMM_SUCCESS THEN IdChange(<<p>>, FALSE, "no servo info")
        ELSE IF o[2].raises THEN IdChange(<<p, u>>, FALSE, "exception")
        ELSE IF o[2].result # COMM_SUCCESS THEN IdChange(<<p, u>>, FALSE, "unlock failed")
        ELSE IF o[3].raises THEN IdChange(<<p, u, i>>, FALSE, "exception")
        ELSE IF o[3].result # COMM_SUCCESS THEN IdChange(<<p, u, i>>, FALSE, "write failed")
        ELSE IF o[4].raises \/ o[4].result # COMM_SUCCESS
             THEN IdChange(<<p, u, i, q>>, FALSE, "new id not verified")
        ELSE IF o[5].raises THEN IdChange(<<p, u, i, q, k>>, FALSE, "exception")
        ELSE IdChange(<<p, u, i, q, k>>, TRUE, "")

\* the (old_id, new_id) pairs of the requests
IdPairs == {<<1, 2>>, <<2, 1>>, <<3, 7>>}

\* the ID-change thread calls execute_id_change for one request
ExecuteIdChange ==
    /\ Idle
    /\ \E ids \in IdPairs, o \in Vec(5) :
         Do("execute_id_change", ids[1], <<ids[2], worker.is_connected>>,
            execute_id_change(worker, ids[1], ids[2], o))
    /\ Keep

NextIdChange ==
    \/ ScanStep(1)
    \/ ExecuteIdChange
    \/ TakeResult

SpecIdChange == Init /\ [][NextIdChange]_vars

\* ------------------------- factory_calibration_tool.py: EZToolUI, both panes
\* ServoWorker.start(): a worker that is not running is flagged running and
\* gets a new scan thread; a running worker is left alone
CanStart(w) == w.running \/ \E t \in 1..MaxScanThreads : w.scan[t] = "none"

start(w) ==
    IF w.running THEN w
    ELSE LET t == CHOOSE u \in 1..MaxScanThreads :
                      /\ w.scan[u] = "none"
                      /\ \A x \in 1..(u - 1) : w.scan[x] # "none"
         IN [w EXCEPT !.running = TRUE, !.scan[t] = "s_begin"]

\* what run_quick_*() and start_remote_control() do to a pane before launching
stop_if_connected(w) == IF w.is_connected THEN stop(w) ELSE w

\* the clicks that stop a worker are taken while it has a thread to spare, so
\* that the start() that follows finds one
Stoppable(w) == ~w.is_connected \/ \E t \in 1..MaxScanThreads : w.scan[t] = "none"

\* One step of a scan thread of pane p (run_scanner)
PanelScanStep(p, t) ==
    LET w == panels[p] IN
    /\ w.scan[t] # "none"
    /\ \/ /\ w.scan[t] = "s_begin"
          /\ \E ok \in BOOLEAN :
               panels' = [panels EXCEPT ![p] =
                   [(IF w.is_connected THEN [w EXCEPT !.running = TRUE]
                     ELSE connect_servo([w EXCEPT !.running = TRUE], ok))
                    EXCEPT !.scan[t] = "s_while"]]
       \/ /\ w.scan[t] = "s_while"
          /\ ~w.running
          /\ panels' = [panels EXCEPT ![p].scan[t] = "none"]
       \/ /\ w.scan[t] = "s_while"
          /\ w.running
          /\ ~w.is_connected
          /\ \E ok \in BOOLEAN : panels' = [panels EXCEPT ![p] = connect_servo(w, ok)]
    /\ UNCHANGED <<srvVars, mover, connVars, thrVars, opVars, present_position,
                   guiVars, quick, remote_worker, monVars, scriptVars>>

QuickActions == {"calibration", "test", "disable"}

\* run_quick_calibration / run_quick_test / run_quick_disable(port_name) on the
\* GUI thread, for the port of pane p
RunQuick(p, a) ==
    /\ quick = NoQuick
    /\ Stoppable(panels[p])
    /\ panels' = [panels EXCEPT ![p] = stop_if_connected(@)]
    /\ quick' = [port |-> p, action |-> a, process |-> "launching"]
    /\ UNCHANGED <<srvVars, mover, connVars, thrVars, opVars, present_position,
                   guiVars, remote_worker, monVars, scriptVars>>

\* _execute_quick_*: subprocess.Popen returns a child or raises
QuickPopen ==
    /\ quick.process = "launching"
    /\ \E raised \in BOOLEAN :
         quick' = [quick EXCEPT !.process = IF raised THEN "raised" ELSE "alive"]
    /\ UNCHANGED <<srvVars, mover, connVars, thrVars, opVars, present_position,
                   guiVars, panels, remote_worker, monVars, scriptVars>>

\* the child ends with code 0 or another code, or monitoring it raises
QuickChildEnds ==
    /\ quick.process = "alive"
    /\ \E how \in {"zero", "nonzero", "raised"} : quick' = [quick EXCEPT !.process = how]
    /\ UNCHANGED <<srvVars, mover, connVars, thrVars, opVars, present_position,
                   guiVars, panels, remote_worker, monVars, scriptVars>>

Ended == {"zero", "nonzero", "raised"}

restart_on_success_only(w, how) == IF how = "zero" THEN start(w) ELSE w

\* the restart at the end of _execute_quick_*: after process.wait() on either
\* return code, and in the except clause
restart_after(w, how) == start(w)

QuickRestart ==
    /\ quick.process \in Ended
    /\ CanStart(panels[quick.port])
    /\ panels' = [panels EXCEPT ![quick.port] = restart_after(@, quick.process)]
    /\ quick' = NoQuick
    /\ UNCHANGED <<srvVars, mover, connVars, thrVars, opVars, present_position,
                   guiVars, remote_worker, monVars, scriptVars>>

\* toggle_remote_control() on the GUI thread. Off: start_remote_control stops
\* the connected workers, then RemoteControlWorker.start_remote_control
\* launches the child (or fails to). On: RemoteControlWorker.stop_remote_control
\* terminates the child, waits 5 s and kills it (or raises), and on success
\* both workers are started
ToggleRemoteControl ==
    /\ IF ~remote_worker.running
       THEN /\ \A p \in Panes : Stoppable(panels[p])
            /\ panels' = [p \in Panes |-> stop_if_connected(panels[p])]
            /\ \E launched \in BOOLEAN :
                 remote_worker' = IF launched
                                  THEN [running |-> TRUE, remote_process |-> "alive"]
                                  ELSE remote_worker
       ELSE \E how \in {"terminated", "killed", "raised"} :
              IF how = "raised"
              THEN UNCHANGED <<panels, remote_worker>>
              ELSE /\ \A p \in Panes : CanStart(panels[p])
                   /\ remote_worker' = [running |-> FALSE, remote_process |-> "none"]
                   /\ panels' = [p \in Panes |-> start(panels[p])]
    /\ UNCHANGED <<srvVars, mover, connVars, thrVars, opVars, present_position,
                   guiVars, quick, monVars, scriptVars>>

\* _monitor_process: the child has ended by itself
MonitorProcess ==
    /\ remote_worker.running
    /\ remote_worker.remote_process = "alive"
    /\ remote_worker' = [running |-> FALSE, remote_process |-> "none"]
    /\ UNCHANGED <<srvVars, mover, connVars, thrVars, opVars, present_position,
                   guiVars, panels, quick, monVars, scriptVars>>

NextQuick ==
    \/ \E p \in Panes, t \in 1..MaxScanThreads : PanelScanStep(p, t)
    \/ \E p \in Panes, a \in QuickActions : RunQuick(p, a)
    \/ QuickPopen
    \/ QuickChildEnds
    \/ QuickRestart

\* threads are scheduled: a scan thread and the quick action's thread that can
\* take a step eventually take it
SpecQuick ==
    /\ Init
    /\ [][NextQuick]_vars
    /\ \A p \in Panes, t \in 1..MaxScanThreads : WF_vars(PanelScanStep(p, t))
    /\ WF_vars(QuickRestart)

NextRemote ==
    \/ \E p \in Panes, t \in 1..MaxScanThreads : PanelScanStep(p, t)
    \/ ToggleRemoteControl
    \/ MonitorProcess


\* the same with the threads scheduled: a scan thread that can take a step
\* eventually takes it; the user's clicks and the child's end are not forced
SpecSession ==
    /\ Init
    /\ [][NextRemote]_vars
    /\ \A p \in Panes, t \in 1..MaxScanThreads : WF_vars(PanelScanStep(p, t))
SpecRemote == Init /\ [][NextRemote]_vars

\* --------------------------------------- modules/status_monitor.py: monitoring
\* the most callbacks registered
MaxCallbacks == 2

MonitorIds == {<<1, 2>>, <<2, 1>>}
\* the callback given to start (None: no callback) and the one added later
Callbacks == {"None", "on_status"}

start_appends_first(m, servo_ids, interval, callback) ==
    LET n == IF callback # "None"
             THEN [m EXCEPT !.monitor_callbacks = Append(@, callback)] ELSE m
    IN IF m.is_monitoring THEN n
       ELSE [n EXCEPT !.is_monitoring = TRUE,
                      !.monitor_thread = [pc |-> "while", servo_ids |-> servo_ids,
                                          interval |-> interval, i |-> 0, j |-> 0,
                                          status |-> "none"]]

\* start_continuous_monitoring(servo_ids, interval, callback)
start_continuous_monitoring(m, servo_ids, interval, callback) ==
    IF m.is_monitoring THEN m
    ELSE [m EXCEPT !.is_monitoring = TRUE,
                   !.monitor_callbacks = IF callback # "None" THEN Append(@, callback) ELSE @,
                   !.monitor_thread = [pc |-> "while", servo_ids |-> servo_ids,
                                       interval |-> interval, i |-> 0, j |-> 0,
                                       status |-> "none"]]

\* the call is made once the thread of an earlier start has ended
StartContinuousMonitoring ==
    /\ Idle
    /\ monitor.is_monitoring \/ monitor.monitor_thread.pc = "none"
    /\ \E servo_ids \in MonitorIds, interval \in {1, 2}, callback \in Callbacks :
         /\ callback = "None" \/ monitor.is_monitoring
               \/ Len(monitor.monitor_callbacks) < MaxCallbacks
         /\ monitor' = start_continuous_monitoring(monitor, servo_ids, interval, callback)
         /\ op' = [name |-> "start_continuous_monitoring",
                   args |-> <<servo_ids, interval, callback, monitor.is_monitoring>>]
    /\ UNCHANGED <<calls, ret, tick>>
    /\ UNCHANGED <<srvVars, mover, connVars, thrVars, present_position, guiVars,
                   paneVars, scriptVars, loops>>

\* stop_continuous_monitoring(): the join (timeout 2 s) changes no field
StopContinuousMonitoring ==
    /\ Idle
    /\ monitor.is_monitoring
    /\ monitor' = [monitor EXCEPT !.is_monitoring = FALSE]
    /\ op' = [name |-> "stop_continuous_monitoring", args |-> <<>>]
    /\ UNCHANGED <<calls, ret, tick>>
    /\ UNCHANGED <<srvVars, mover, connVars, thrVars, present_position, guiVars,
                   paneVars, scriptVars, loops>>

AddMonitorCallback ==
    /\ Idle
    /\ Len(monitor.monitor_callbacks) < MaxCallbacks
    /\ \E callback \in {"on_alarm"} :
         /\ monitor' = [monitor EXCEPT !.monitor_callbacks = Append(@, callback)]
         /\ op' = [name |-> "add_monitor_callback", args |-> <<callback>>]
    /\ UNCHANGED <<calls, ret, tick>>
    /\ UNCHANGED <<srvVars, mover, connVars, thrVars, present_position, guiVars,
                   paneVars, scriptVars, loops>>

\* what the worker did: it computed the status of the i-th ID (j = 0) or it
\* called the j-th callback with that ID and status; n is the number of
\* callbacks registered then
Did(t, j, cb, raised) ==
    [i |-> t.i, id |-> t.servo_ids[t.i], status |-> t.status, j |-> j, cb |-> cb,
     raised |-> raised, n |-> Len(monitor.monitor_callbacks)]

callback_raise_ends_tick(t, raised) == IF raised THEN [t EXCEPT !.pc = "sleep"] ELSE [t EXCEPT !.j = @ + 1]

\* where the worker goes after a callback returned or raised: the except
\* clause inside the callback loop logs, and the loop goes on
after_callback(t, raised) == [t EXCEPT !.j = @ + 1]

\* (variant: the loop never tests the flag)
loop_forever(m) == TRUE

\* the test of `while self.is_monitoring`
loop_goes_on(m) == m.is_monitoring

\* One step of the thread running _monitoring_loop(servo_ids, interval)
MonitoringLoop ==
    LET t == monitor.monitor_thread
        go(u) == monitor' = [monitor EXCEPT !.monitor_thread = u]
    IN
    /\ Idle
    /\ t.pc # "none"
    /\ \/ /\ t.pc = "while"
          /\ IF loop_goes_on(monitor)
             THEN go([t EXCEPT !.pc = "for_id", !.i = 1])
             ELSE go(NoMonitorThread)
          /\ tick' = <<>>
       \/ /\ t.pc = "for_id"
          /\ IF t.i > Len(t.servo_ids)
             THEN go([t EXCEPT !.pc = "sleep"]) /\ UNCHANGED tick
             ELSE \E status \in {"normal", "critical"} :
                    LET u == [t EXCEPT !.status = status, !.pc = "for_cb", !.j = 1]
                    IN go(u) /\ tick' = Append(tick, Did(u, 0, "None", FALSE))
       \/ /\ t.pc = "for_cb"
          /\ IF t.j > Len(monitor.monitor_callbacks)
             THEN go([t EXCEPT !.pc = "for_id", !.i = @ + 1]) /\ UNCHANGED tick
             ELSE \E raised \in BOOLEAN :
                    /\ go(after_callback(t, raised))
                    /\ tick' = Append(tick, Did(t, t.j, monitor.monitor_callbacks[t.j], raised))
       \/ /\ t.pc = "sleep"
          /\ go([t EXCEPT !.pc = "while"])
          /\ UNCHANGED tick
    /\ UNCHANGED opVars
    /\ UNCHANGED <<srvVars, mover, connVars, thrVars, present_position, guiVars,
                   paneVars, scriptVars, loops>>

NextMon ==
    \/ StartContinuousMonitoring
    \/ StopContinuousMonitoring
    \/ AddMonitorCallback
    \/ MonitoringLoop
    \/ TakeResult

SpecMon == Init /\ [][NextMon]_vars

\* ------------------------------ status_monitor.py: the worker threads' lives
Free == {k \in 1..MaxEarlier : loops[k].pc = "none"}

\* the arguments of the starts: one list of IDs, an interval longer than the
\* 2 s the join in stop waits, and no callback
LoopIds == {<<1, 2>>}
LongIntervals == {3}

\* start_continuous_monitoring called at any time: the thread that
\* monitor_thread referred to, if it is still alive, goes on running
StartMonitoringAgain ==
    /\ Idle
    /\ monitor.is_monitoring \/ monitor.monitor_thread.pc = "none" \/ Free # {}
    /\ \E servo_ids \in LoopIds, interval \in LongIntervals, callback \in {"None"} :
         /\ monitor' = start_continuous_monitoring(monitor, servo_ids, interval, callback)
         /\ op' = [name |-> "start_continuous_monitoring",
                   args |-> <<servo_ids, interval, callback, monitor.is_monitoring>>]
    /\ loops' = IF monitor.is_monitoring \/ monitor.monitor_thread.pc = "none" THEN loops
                ELSE [loops EXCEPT ![CHOOSE k \in Free : \A x \in Free : k <= x] =
                                       monitor.monitor_thread]
    /\ UNCHANGED <<calls, ret, tick>>
    /\ UNCHANGED <<srvVars, mover, connVars, thrVars, present_position, guiVars,
                   paneVars, scriptVars>>

\* where a thread in _monitoring_loop can be after its next step
LoopNext(t) ==
    IF t.pc = "while"
    THEN {IF loop_goes_on(monitor) THEN [t EXCEPT !.pc = "for_id", !.i = 1]
          ELSE NoMonitorThread}
    ELSE IF t.pc = "for_id"
    THEN IF t.i > Len(t.servo_ids) THEN {[t EXCEPT !.pc = "sleep"]}
         ELSE {[t EXCEPT !.status = status, !.pc = "for_cb", !.j = 1] :
                  status \in {"normal", "critical"}}
    ELSE IF t.pc = "for_cb"
    THEN IF t.j > Len(monitor.monitor_callbacks) THEN {[t EXCEPT !.pc = "for_id", !.i = @ + 1]}
         ELSE {after_callback(t, raised) : raised \in BOOLEAN}
    ELSE {[t EXCEPT !.pc = "while"]}

\* One step of the worker thread of an earlier start
EarlierLoop(k) ==
    /\ Idle
    /\ loops[k].pc # "none"
    /\ \E u \in LoopNext(loops[k]) : loops' = [loops EXCEPT ![k] = u]
    /\ UNCHANGED <<opVars, monitor, tick>>
    /\ UNCHANGED <<srvVars, mover, connVars, thrVars, present_position, guiVars,
                   paneVars, scriptVars>>

NextLoops ==
    \/ StartMonitoringAgain
    \/ StopContinuousMonitoring
    \/ MonitoringLoop
    \/ \E k \in 1..MaxEarlier : EarlierLoop(k)
    \/ TakeResult

\* threads are scheduled and the caller's calls return: a worker thread that
\* can take a step eventually takes it
SpecLoops ==
    /\ Init
    /\ [][NextLoops]_vars
    /\ WF_vars(MonitoringLoop)
    /\ \A k \in 1..MaxEarlier : WF_vars(EarlierLoop(k))
    /\ WF_vars(TakeResult)

\* ------------------------------------------ modules/status_monitor.py: status
\* the most servos a scan finds
MaxFound == 3

\* what a read_* method returned: (value, 0, error) or (None, result, error)
Reading(v) == [ok |-> TRUE, v |-> v]
NoReading == [ok |-> FALSE, v |-> 0]

\* a dict entry that is set under a condition
Entry(cond, key, v) == IF cond THEN key :> v ELSE <<>>

\* usage_ratio >= tenths / 10, for usage_ratio = temperature / temp_limit if
\* temp_limit > 0 else 0: the quotient of two register bytes, rounded to a
\* double, compares with the literals 0.9, 0.8 and 0.6 as the exact ratio does
UsageAtLeast(temperature, temp_limit, tenths) ==
    IF temp_limit > 0 THEN 10 * temperature >= tenths * temp_limit ELSE FALSE

temp_warning_level(temperature, temp_limit) ==
    IF UsageAtLeast(temperature, temp_limit, 9) THEN "critical"
    ELSE IF UsageAtLeast(temperature, temp_limit, 8) THEN "warning"
    ELSE IF UsageAtLeast(temperature, temp_limit, 6) THEN "caution"
    ELSE "normal"

ErrorNames == <<"voltage", "angle", "overheat", "overload", "overele", "overcurrent">>

BitSet(v, b) == (v \div (2 ^ b)) % 2 = 1

\* _parse_hardware_errors(error_status): the names of the bits 0..5 that are set
parse_hardware_errors(error_status) ==
    LET RECURSIVE from(_)
        from(b) == IF b > 5 THEN <<>>
                   ELSE (IF BitSet(error_status, b) THEN <<ErrorNames[b + 1]>> ELSE <<>>)
                        \o from(b + 1)
    IN from(0)

\* get_complete_status(servo_id), given what read_temperature,
\* read_temperature_limit and read_hardware_error_status returned: the
\* entries of status['advanced'] that depend on them, and status['errors'].
\* The usage ratio and the level are set under `if temperature:`
get_complete_status(temperature, temp_limit, hw_error) ==
    LET leveled == temp_limit.ok /\ temperature.ok /\ temperature.v # 0
    IN [advanced |->
            Entry(temperature.ok, "temperature", temperature.v)
            @@ Entry(temp_limit.ok, "temperature_limit", temp_limit.v)
            @@ Entry(leveled, "temp_warning_level",
                     temp_warning_level(temperature.v, temp_limit.v))
            @@ Entry(hw_error.ok, "hardware_error", hw_error.v),
        errors |-> IF hw_error.ok THEN parse_hardware_errors(hw_error.v) ELSE <<>>]

\* dict.get(key, default)
Get(dict, key, default) == IF key \in DOMAIN dict THEN dict[key] ELSE default

health_ignores_errors(status) ==
    LET temp_warning == Get(status.advanced, "temp_warning_level", "normal")
    IN IF temp_warning = "critical" THEN "critical"
       ELSE IF temp_warning = "warning" THEN "warning"
       ELSE "healthy"

\* the health_status get_system_health_report gives a servo
health_status(status) ==
    LET temp_warning == Get(status.advanced, "temp_warning_level", "normal")
    IN IF temp_warning = "critical" \/ status.errors # <<>> THEN "critical"
       ELSE IF temp_warning = "warning" THEN "warning"
       ELSE "healthy"

\* get_system_health_report(), given what the scan found: for each servo in
\* turn the three readings its status is made from
RECURSIVE assess(_, _)
assess(servos, report) ==
    IF servos = <<>> THEN report
    ELSE LET r == Head(servos)
             h == health_status(get_complete_status(r[1], r[2], r[3]))
         IN assess(Tail(servos),
                   [report EXCEPT
                      !.critical_servos = IF h = "critical" THEN @ + 1 ELSE @,
                      !.warning_servos = IF h = "warning" THEN @ + 1 ELSE @,
                      !.healthy_servos = IF h = "healthy" THEN @ + 1 ELSE @,
                      !.servo_details = Append(@, h)])

get_system_health_report(servos) ==
    assess(servos, [total_servos |-> Len(servos), healthy_servos |-> 0,
                    warning_servos |-> 0, critical_servos |-> 0,
                    servo_details |-> <<>>])

Temperatures == {NoReading} \cup {Reading(v) : v \in {0, 24, 40, 47, 48, 63, 64, 68, 71, 72, 76, 90}}
TemperatureLimits == {NoReading} \cup {Reading(v) : v \in {0, 80, 100}}
HardwareErrors == {NoReading} \cup {Reading(v) : v \in {0, 4, 33, 64}}

GetCompleteStatus ==
    /\ Idle
    /\ \E temperature \in Temperatures, temp_limit \in TemperatureLimits,
          hw_error \in HardwareErrors :
         /\ op' = [name |-> "get_complete_status",
                   args |-> <<temperature, temp_limit, hw_error>>]
         /\ ret' = get_complete_status(temperature, temp_limit, hw_error)
    /\ UNCHANGED calls
    /\ Keep

\* the servos found: at ratio 0.3, 0.85 or 0.95 of the limit, with no bit, an
\* error bit or an undefined bit set in the error status
Found ==
    {<<Reading(t), Reading(80), Reading(e)>> : t \in {24, 68, 76}, e \in {0, 4, 64}}

RECURSIVE Lists(_, _)
Lists(S, n) ==
    IF n = 0 THEN {<<>>}
    ELSE Lists(S, n - 1) \cup {Append(l, x) : l \in {m \in Lists(S, n - 1) : Len(m) = n - 1}, x \in S}

GetSystemHealthReport ==
    /\ Idle
    /\ \E servos \in Lists(Found, MaxFound) :
         /\ op' = [name |-> "get_system_health_report", args |-> servos]
         /\ ret' = get_system_health_report(servos)
    /\ UNCHANGED calls
    /\ Keep

NextStatus == GetCompleteStatus \/ GetSystemHealthReport \/ TakeResult

SpecStatus == Init /\ [][NextStatus]_vars

\* ----------------------- servo_middle_calibration.py: interactive calibration
\* the six prompts of run_interactive_calibration, in order
Steps == <<"connect", "scan", "disable", "read", "calibrate", "center">>

\* the typed answers: yes, no, and end of input or Ctrl-C
Answers == {"y", "n", "EOF"}

\* the workflow has returned
Finished(c, value) == [c EXCEPT !.step = 7, !.ret = value]

\* the workflow goes on to the next prompt, or to its end after the sixth
GoOn(c) == IF c.step = 6 THEN Finished(c, "True") ELSE [c EXCEPT !.step = @ + 1]

declined_through_disable(c) == IF c.step <= 3 THEN Finished(c, "False") ELSE GoOn(c)

\* an answer other than y/yes (or EOFError, KeyboardInterrupt): the connect and
\* scan prompts return False (scan after disconnect_port), the others log
\* and fall through
declined(c) == IF c.step <= 2 THEN Finished(c, "False") ELSE GoOn(c)

\* the step is run: a failed connect_port and an empty scan return False,
\* the other steps go on whatever they return
accepted(c, ok) ==
    LET d == [c EXCEPT !.performed = @ \cup {c.step}]
    IN IF c.step <= 2 /\ ~ok THEN Finished(d, "False") ELSE GoOn(d)

RunInteractiveCalibration ==
    /\ calibrator.step \in {0, 7}
    /\ calibrator' = [NoCalibration EXCEPT !.step = 1]
    /\ UNCHANGED <<torque_enable, runs>>
    /\ UNCHANGED <<srvVars, mover, connVars, thrVars, opVars, present_position,
                   guiVars, paneVars, monVars>>

\* one prompt of run_interactive_calibration and what follows the answer
AnswerPrompt ==
    /\ calibrator.step \in 1..6
    /\ \E answer \in Answers, ok \in BOOLEAN :
         LET c == [calibrator EXCEPT !.answers = Append(@, answer)]
         IN calibrator' = IF answer = "y" THEN accepted(c, ok) ELSE declined(c)
    /\ UNCHANGED <<torque_enable, runs>>
    /\ UNCHANGED <<srvVars, mover, connVars, thrVars, opVars, present_position,
                   guiVars, paneVars, monVars>>

NextInteractive == RunInteractiveCalibration \/ AnswerPrompt

SpecInteractive == Init /\ [][NextInteractive]_vars

\* ------------------------------------------- servo_remote_control.py: mirror
\* a transaction of the master or the slave protocol handler
PortCall(port, fn, id, data, o) == ("port" :> port) @@ Call(fn, id, 0, data, o)

read_servo_angle_truthy(servo_id, position, o) ==
    [calls |-> <<PortCall("master", "ReadPos", servo_id, <<>>, o)>>,
     angle |-> IF ~o.raises /\ o.result = COMM_SUCCESS /\ position # 0
               THEN <<position>> ELSE <<>>]

\* read_servo_angle(servo_id): the position (here a one-element sequence) when
\* ReadPos reports success, None (the empty sequence) when it reports a
\* failure or raises
read_servo_angle(servo_id, position, o) ==
    [calls |-> <<PortCall("master", "ReadPos", servo_id, <<>>, o)>>,
     angle |-> IF ~o.raises /\ o.result = COMM_SUCCESS THEN <<position>> ELSE <<>>]

\* write_servo_angle(servo_id, angle): speed 3000, acceleration 100
write_servo_angle(servo_id, angle, o) ==
    [calls |-> <<PortCall("slave", "WritePosEx", servo_id, <<angle, 3000, 100>>, o)>>,
     success |-> ~o.raises /\ o.result = COMM_SUCCESS]

\* the for loop of one iteration of run_ultra_fast_control, from servo_id on
RECURSIVE sync_from(_, _, _, _, _)
sync_from(servo_id, positions, reads, writes, r) ==
    IF servo_id > 6 THEN r
    ELSE LET rd == read_servo_angle(servo_id, positions[servo_id], reads[servo_id])
             wr == write_servo_angle(servo_id, rd.angle[1], writes[servo_id])
         IN IF rd.angle = <<>>
            THEN sync_from(servo_id + 1, positions, reads, writes,
                           [r EXCEPT !.calls = @ \o rd.calls])
            ELSE sync_from(servo_id + 1, positions, reads, writes,
                           [calls |-> r.calls \o rd.calls \o wr.calls,
                            sync_count |-> IF wr.success THEN r.sync_count + 1
                                           ELSE r.sync_count])

\* set_slave_torque_on(): ping each ID on the slave port and switch the torque
\* of those that answer on; a raise goes on with the next ID
RECURSIVE torque_on_from(_, _, _, _)
torque_on_from(servo_id, pings, writes, cs) ==
    IF servo_id > 6 THEN cs
    ELSE LET p == PortCall("slave", "ping", servo_id, <<>>, pings[servo_id])
             w == PortCall("slave", "write1ByteTxRx", servo_id, <<SMS_STS_TORQUE_ENABLE, 1>>,
                           writes[servo_id])
         IN torque_on_from(servo_id + 1, pings, writes,
                           IF ~p.out.raises /\ p.out.result = COMM_SUCCESS
                           THEN cs \o <<p, w>> ELSE cs \o <<p>>)

\* where the hand-held master servos stand
MasterPositions == {[servo_id \in 1..6 |-> 0], [servo_id \in 1..6 |-> 500 * servo_id]}

ReadOutcomes == {Ok, Returned(COMM_RX_TIMEOUT, "RxTimeout"), Raised}

\* run_ultra_fast_control() up to its loop
SetSlaveTorqueOn ==
    /\ Idle
    /\ \E pings \in OneFault(6), writes \in OneFault(6) :
         /\ op' = [name |-> "set_slave_torque_on", id |-> 0, args |-> <<>>]
         /\ calls' = torque_on_from(1, pings, writes, <<>>)
    /\ UNCHANGED ret
    /\ Keep

\* one iteration of the while loop of run_ultra_fast_control()
SyncIteration ==
    /\ Idle
    /\ \E positions \in MasterPositions, reads \in [1..6 -> ReadOutcomes],
          writes \in OneFault(6) :
         LET r == sync_from(1, positions, reads, writes, [calls |-> <<>>, sync_count |-> 0])
         IN /\ op' = [name |-> "sync_iteration", id |-> 0, args |-> positions]
            /\ calls' = r.calls
            /\ ret' = [NoRet EXCEPT !.value = <<r.sync_count>>]
    /\ Keep

NextMirror == SetSlaveTorqueOn \/ SyncIteration \/ TakeResult

SpecMirror == Init /\ [][NextMirror]_vars

\* ---------------------------------------------- servo_disable.py: the batch
\* the most runs of the disable batch
MaxRuns == 2

\* what a run did: whether it got its port, its writes, the torque registers
\* before and after, and what it returned
Run(opened, torque, r) ==
    [opened |-> opened, calls |-> r.calls, before |-> torque, after |-> r.torque,
     ret |-> r.ret]

RECURSIVE disable_skips_disabled(_, _, _)
disable_skips_disabled(servo_id, outcomes, r) ==
    IF servo_id > 6 THEN [r EXCEPT !.ret = "True"]
    ELSE IF r.torque[servo_id] = 0 THEN disable_skips_disabled(servo_id + 1, outcomes, r)
    ELSE LET o == outcomes[servo_id]
             c == Call("write1ByteTxRx", servo_id, SMS_STS_TORQUE_ENABLE, <<0>>, o)
         IN IF o.raises THEN [r EXCEPT !.calls = Append(@, c), !.ret = "False"]
            ELSE disable_skips_disabled(servo_id + 1, outcomes,
                    [r EXCEPT !.calls = Append(@, c),
                              !.torque[servo_id] = IF o.result = COMM_SUCCESS THEN 0 ELSE @])

\* the loop of quick_motor_disable over servo_ids, from servo_id on: a write
\* of 0 to the torque-enable register of each ID, whatever the earlier writes
\* reported; a write that raises ends the run in the except clause. A servo
\* takes the write that reports success
RECURSIVE disable_from(_, _, _)
disable_from(servo_id, outcomes, r) ==
    IF servo_id > 6 THEN [r EXCEPT !.ret = "True"]
    ELSE LET o == outcomes[servo_id]
             c == Call("write1ByteTxRx", servo_id, SMS_STS_TORQUE_ENABLE, <<0>>, o)
         IN IF o.raises THEN [r EXCEPT !.calls = Append(@, c), !.ret = "False"]
            ELSE disable_from(servo_id + 1, outcomes,
                    [r EXCEPT !.calls = Append(@, c),
                              !.torque[servo_id] = IF o.result = COMM_SUCCESS THEN 0 ELSE @])

\* quick_motor_disable(port_name): openPort and setBaudRate, then the loop
quick_motor_disable(opened, torque, outcomes) ==
    LET r == [calls |-> <<>>, torque |-> torque, ret |-> "False"]
    IN Run(opened, torque, IF opened THEN disable_from(1, outcomes, r) ELSE r)

QuickMotorDisable ==
    /\ Len(runs) < MaxRuns
    /\ \E opened \in BOOLEAN, outcomes \in OneFault(6) :
         LET run == quick_motor_disable(opened, torque_enable, outcomes)
         IN /\ runs' = Append(runs, run)
            /\ torque_enable' = run.after
    /\ UNCHANGED calibrator
    /\ UNCHANGED <<srvVars, mover, connVars, thrVars, opVars, present_position,
                   guiVars, paneVars, monVars>>

\* another tool switches the torque of a servo back on between two runs
TorqueSwitchedOn ==
    /\ runs # <<>>
    /\ \E servo_id \in {1, 6} :
         /\ torque_enable[servo_id] = 0
         /\ torque_enable' = [torque_enable EXCEPT ![servo_id] = 1]
    /\ UNCHANGED <<calibrator, runs>>
    /\ UNCHANGED <<srvVars, mover, connVars, thrVars, opVars, present_position,
                   guiVars, paneVars, monVars>>

NextDisable == QuickMotorDisable \/ TorqueSwitchedOn

SpecDisable == Init /\ [][NextDisable]_vars

\* ----------------------------------------- utils/data_parser.py: conversions
bytes_to_int_unsigned(data, signed) ==
    IF data = <<>> THEN 0
    ELSE LET RECURSIVE sum(_)
             sum(i) == IF i = 0 THEN 0 ELSE data[i] * Pow256(i - 1) + sum(i - 1)
         IN sum(Len(data))

\* bytes_to_int(data, signed), for at most 4 bytes: 0 for no data; the bytes
\* read little-endian, by struct.unpack for 1, 2 and 4 bytes and by the manual
\* loop otherwise; a signed value with the top bit of the last byte set is
\* 256^len lower (the last byte is weighed signed, which keeps every
\* intermediate value within 32 bits)
bytes_to_int(data, signed) ==
    IF data = <<>> THEN 0
    ELSE LET n == Len(data)
             top == IF signed /\ data[n] >= 128 THEN data[n] - 256 ELSE data[n]
             RECURSIVE sum(_)
             sum(i) == IF i = 0 THEN 0 ELSE data[i] * Pow256(i - 1) + sum(i - 1)
         IN sum(n - 1) + top * Pow256(n - 1)

\* the signed values of a width: all of one byte, and those around the byte
\* boundaries and at the ends of the range of two and four bytes
SignedValues(w) ==
    CASE w = 1 -> -128..127
      [] w = 2 -> {-32768, -32767, -257, -256, -255, -129, -128, -1, 0, 1, 127, 128,
                   255, 256, 257, 32766, 32767}
      [] OTHER -> {-2147483647 - 1, -2147483647, -16777217, -16777216, -65537, -65536,
                   -32769, -257, -1, 0, 1, 255, 256, 65535, 65536, 16777215, 16777216,
                   2147483646, 2147483647}

\* bytes_to_int(int_to_bytes(value, length, signed=True), signed=True)
RoundTrip ==
    /\ Idle
    /\ \E length \in {1, 2, 4} :
         \E value \in SignedValues(length) :
           LET data == int_to_bytes(value, length, TRUE) IN
           /\ op' = [name |-> "round_trip", id |-> 0, args |-> <<value, length, data>>]
           /\ ret' = [NoRet EXCEPT !.value = <<bytes_to_int(data, TRUE)>>]
    /\ UNCHANGED calls
    /\ Keep

NextParser == RoundTrip \/ TakeResult

SpecParser == Init /\ [][NextParser]_vars

\* ------------------------------------------------------- the control servers
\* final_web_server.py and seeed_robocore_server.py: both bind localhost:8765,
\* one of them runs
Servers == {"FTServoWebServer", "SeeedRoboCoreServer"}

\* connect_hardware(): o is what openPort / setBaudRate / hls(...) do. Returns
\* the server's hardware state; is_connected tells what the call returned
connect_hardware_keeps_handler(class, o) ==
    [class |-> class,
     is_connected |-> o.open = "ok" /\ o.baud = "ok" /\ o.proto = "ok",
     packet_handler |-> "hls",
     port |-> IF o.open # "ok" THEN "unopened"
              ELSE IF o.baud = "fail" THEN "closed" ELSE "open"]

connect_hardware(class, o) ==
    IF o.open # "ok"
    THEN [class |-> class, is_connected |-> FALSE, packet_handler |-> NoHandler,
          port |-> "unopened"]
    ELSE IF o.baud = "fail"
    THEN [class |-> class, is_connected |-> FALSE, packet_handler |-> NoHandler,
          port |-> "closed"]
    ELSE IF o.baud = "raise" \/ o.proto = "raise"
    THEN [class |-> class, is_connected |-> FALSE, packet_handler |-> NoHandler,
          port |-> "open"]
    ELSE [class |-> class, is_connected |-> TRUE, packet_handler |-> "hls",
          port |-> "open"]

\* The calls a straight run of packet_handler calls gets to make: none when
\* packet_handler is None (the attribute access raises), otherwise up to and
\* including the first call that raises
Performed(planned) ==
    LET R == {k \in 1..Len(planned) : planned[k].out = Raised}
    IN IF server.packet_handler = NoHandler THEN <<>>
       ELSE IF R = {} THEN planned
       ELSE SubSeq(planned, 1, CHOOSE k \in R : \A j \in R : k <= j)
\* whether that run ended in an exception
Threw(planned) ==
    \/ server.packet_handler = NoHandler
    \/ \E k \in 1..Len(planned) : planned[k].out = Raised

\* the bytes a successful readTxRx of n bytes returns: every byte is v
Bytes(n, v) == [i \in 1..n |-> v]
\* a 2-byte little-endian reading taken as signed 16 bit
Signed16(data) ==
    LET u == data[1] + 256 * data[2] IN IF u >= 32768 THEN u - 65536 ELSE u
\* a field filled from the k-th call: <<x>> when that call was made and
\* returned success, <<>> (None) otherwise
At(cs, k, x) == IF k <= Len(cs) /\ cs[k].out = Ok THEN <<x>> ELSE <<>>

\* What a server operation did and returned: success is "True" / "False",
\* data the fields it read (each <<>> for None), error "None" when absent
Out(cs, success, data, error) ==
    [calls |-> cs, success |-> success, data |-> data, error |-> error]

\* scan_servos(start_id, end_id): every ping has its own try, a raising ping is
\* skipped; m is the model number the servos answer with
srv_scan_servos(start_id, end_id, os, m) ==
    LET cs == IF server.packet_handler = NoHandler THEN <<>>
              ELSE [k \in 1..(end_id - start_id + 1) |->
                      Call("ping", start_id + k - 1, 0, <<m>>, os[k])]
        found == SelectSeq(cs, LAMBDA c : c.out = Ok)
    IN Out(cs, "n/a",
           [k \in 1..Len(found) |->
               [id |-> found[k].id, model_number |-> m, connected |-> TRUE]],
           "None")

\* get_servo_status: success holds status['connected']; data is position,
\* speed, temperature, voltage (raw, tenths of a volt), current
get_servo_status(servo_id, os, v) ==
    LET ping1 == Call("ping", servo_id, 0, <<v>>, os[1])
        planned ==
            IF os[1] # Ok /\ os[1] # Raised THEN <<ping1>>
            ELSE <<ping1,
                   Call("ReadPos", servo_id, 0, <<v>>, os[2]),
                   Call("ReadSpeed", servo_id, 0, <<v>>, os[3]),
                   Call("readTxRx", servo_id, 63, Bytes(1, v), os[4]),
                   Call("readTxRx", servo_id, 62, Bytes(1, v), os[5]),
                   Call("readTxRx", servo_id, 65, Bytes(2, v), os[6])>>
        cs == Performed(planned)
    IN Out(cs, IF At(cs, 1, v) # <<>> THEN "True" ELSE "False",
           <<At(cs, 2, v), At(cs, 3, v), At(cs, 4, v), At(cs, 5, v),
             At(cs, 6, Signed16(Bytes(2, v)))>>,
           IF Threw(planned) THEN "Exception" ELSE "None")

\* get_firmware_info: firmware major, minor, patch, hardware major, minor
get_firmware_info(servo_id, os, v) ==
    LET addrs == <<0, 1, 3, 4, 4>>
        planned == [k \in 1..5 |->
                      Call("readTxRx", servo_id, addrs[k], Bytes(1, v), os[k])]
        cs == Performed(planned)
    IN Out(cs, "n/a", [k \in 1..5 |-> At(cs, k, v)],
           IF Threw(planned) THEN "Exception" ELSE "None")

\* read_memory_direct with the 'read_memory' branch's reply fields: data is
\* the hex string (None when nothing was read), success is result == 0
read_memory_direct(servo_id, address, length, o, v) ==
    LET planned == <<Call("readTxRx", servo_id, address, Bytes(length, v), o)>>
        cs == Performed(planned)
    IN IF Threw(planned) THEN Out(cs, "False", <<<<>>>>, "Exception")
       ELSE Out(cs, IF o = Ok THEN "True" ELSE "False",
                <<IF o = Ok /\ length > 0 THEN <<Bytes(length, v)>> ELSE <<>>>>,
                IF o = Ok THEN "None" ELSE o.error)

\* write_memory_direct: data is a hex string ("hex", "badhex": int(b, 16)
\* raises) or a list ("list")
write_memory_direct(servo_id, address, kind, v, o) ==
    LET planned == <<Call("writeTxRx", servo_id, address, <<v>>, o)>>
        cs == Performed(planned)
    IN IF kind = "badhex" THEN Out(<<>>, "False", <<>>, "Exception")
       ELSE IF Threw(planned) THEN Out(cs, "False", <<>>, "Exception")
       ELSE Out(cs, IF o = Ok THEN "True" ELSE "False", <<>>, o.error)

\* read_pid_params: the unlock's result is not looked at; data is position
\* P, D, I, speed P, I, startup torque
read_pid_params(servo_id, os, v) ==
    LET planned ==
            <<Call("unLockEprom", servo_id, 0, <<>>, os[1]),
              Call("readTxRx", servo_id, 21, Bytes(1, v), os[2]),
              Call("readTxRx", servo_id, 22, Bytes(1, v), os[3]),
              Call("readTxRx", servo_id, 23, Bytes(1, v), os[4]),
              Call("readTxRx", servo_id, 37, Bytes(1, v), os[5]),
              Call("readTxRx", servo_id, 39, Bytes(2, v), os[6]),
              Call("readTxRx", servo_id, 24, Bytes(1, v), os[7]),
              Call("LockEprom", servo_id, 0, <<>>, os[8])>>
        cs == Performed(planned)
    IN Out(cs, "n/a",
           <<At(cs, 2, v), At(cs, 3, v), At(cs, 4, v), At(cs, 5, v),
             At(cs, 6, Signed16(Bytes(2, v))), At(cs, 7, v)>>,
           IF Threw(planned) THEN "Exception" ELSE "None")

\* write_pid_params: groups tells which of position_pid (p, i, d all v),
\* speed_pid (p, i both v) and startup_torque (v) the message carries
write_pid_params(servo_id, groups, v, os) ==
    LET unlock == <<Call("unLockEprom", servo_id, 0, <<>>, os[1])>>
        pos == IF "position_pid" \in groups
               THEN <<Call("writeTxRx", servo_id, 21, <<v>>, os[2]),
                      Call("writeTxRx", servo_id, 22, <<v>>, os[3]),
                      Call("writeTxRx", servo_id, 23, <<v>>, os[4])>>
               ELSE <<>>
        spd == IF "speed_pid" \in groups
               THEN <<Call("writeTxRx", servo_id, 37, <<v>>, os[5]),
                      Call("writeTxRx", servo_id, 39, <<v % 256, (v \div 256) % 256>>, os[6])>>
               ELSE <<>>
        tq == IF "startup_torque" \in groups
              THEN <<Call("writeTxRx", servo_id, 24, <<v>>, os[7])>>
              ELSE <<>>
        writes == pos \o spd \o tq
        planned == IF os[1] # Ok /\ os[1] # Raised THEN unlock
                   ELSE unlock \o writes
                          \o <<Call("LockEprom", servo_id, 0, <<>>, os[8])>>
        cs == Performed(planned)
    IN IF Threw(planned) THEN Out(cs, "False", <<>>, "Exception")
       ELSE IF os[1] # Ok THEN Out(cs, "False", <<>>, "Failed to unlock EEPROM")
       ELSE Out(cs,
                IF \A k \in 1..Len(writes) : writes[k].out = Ok
                THEN "True" ELSE "False",
                <<>>, "None")

\* read_temperature_limit: data is the limit
read_temperature_limit(servo_id, os, v) ==
    LET unlock == <<Call("unLockEprom", servo_id, 0, <<>>, os[1])>>
        planned == IF os[1] # Ok /\ os[1] # Raised THEN unlock
                   ELSE unlock \o <<Call("readTxRx", servo_id, 13, Bytes(1, v), os[2]),
                                    Call("LockEprom", servo_id, 0, <<>>, os[3])>>
        cs == Performed(planned)
    IN IF Threw(planned) THEN Out(cs, "False", <<<<>>>>, "Exception")
       ELSE IF os[1] # Ok THEN Out(cs, "False", <<<<>>>>, "Failed to unlock EEPROM")
       ELSE IF os[2] = Ok THEN Out(cs, "True", <<<<v>>>>, "None")
       ELSE Out(cs, "False", <<<<>>>>, os[2].error)

\* write_temperature_limit
write_temperature_limit(servo_id, temp_limit, os) ==
    LET unlock == <<Call("unLockEprom", servo_id, 0, <<>>, os[1])>>
        planned == IF os[1] # Ok /\ os[1] # Raised THEN unlock
                   ELSE unlock \o <<Call("writeTxRx", servo_id, 13, <<temp_limit>>, os[2]),
                                    Call("LockEprom", servo_id, 0, <<>>, os[3])>>
        cs == Performed(planned)
    IN IF Threw(planned) THEN Out(cs, "False", <<>>, "Exception")
       ELSE IF os[1] # Ok THEN Out(cs, "False", <<>>, "Failed to unlock EEPROM")
       ELSE Out(cs, IF os[2] = Ok THEN "True" ELSE "False", <<>>, os[2].error)

\* the 'move_servo' and 'stop_servo' branches: one packet_handler call in a try
srv_command(fn, servo_id, data, o) ==
    LET planned == <<Call(fn, servo_id, 0, data, o)>>
        cs == Performed(planned)
    IN IF Threw(planned) THEN Out(cs, "False", <<>>, "Exception")
       ELSE Out(cs, IF o = Ok THEN "True" ELSE "False", <<>>,
                IF o = Ok THEN "None" ELSE o.error)

\* One message sent to a client: success / data / error are the operation's,
\* "n/a" / <<>> / "None" where the reply has no such field
Reply(type, servo_id, r) ==
    [type |-> type, servo_id |-> servo_id, success |-> r.success,
     data |-> r.data, error |-> r.error]
Said(type, text) == Reply(type, 0, Out(<<>>, "n/a", <<>>, text))

\* The message types handle_message has a branch for
Catalogue ==
    {"ping", "scan_servos", "get_servo_status", "move_servo", "stop_servo",
     "read_memory", "write_memory", "get_firmware_info", "read_pid_params",
     "write_pid_params", "read_temperature_limit", "write_temperature_limit"}
        \cup (IF server.class = "SeeedRoboCoreServer" THEN {"set_servo_id"} ELSE {})

\* A received text frame. kind: "malformed" is not JSON, "non_object" is JSON
\* but no object, "object" is a JSON object with 'type' (the string "None": no
\* such key); complete: the fields the branch requires are all there
Messages ==
    {[NoMessage EXCEPT !.kind = k] : k \in {"malformed", "non_object"}}
    \cup {[NoMessage EXCEPT !.kind = "object", !.type = t, !.complete = c,
                            !.servo_id = i, !.v = v] :
            t \in Catalogue \cup {"set_servo_id", "calibrate", "None"},
            c \in BOOLEAN, i \in ServoIds, v \in {200}}
    \cup {[NoMessage EXCEPT !.kind = "object", !.type = "write_pid_params",
                            !.complete = TRUE, !.servo_id = 1, !.v = 200,
                            !.groups = g] :
            g \in SUBSET {"position_pid", "speed_pid", "startup_torque"}}
    \cup {[NoMessage EXCEPT !.kind = "object", !.type = "write_memory",
                            !.complete = TRUE, !.servo_id = 1, !.v = 200,
                            !.fmt = f] :
            f \in {"hex", "badhex"}}

handle_message_drops_unknown(data, os) ==
    IF data.type = "ping"
    THEN [calls |-> <<>>, replies |-> <<Said("pong", "None")>>]
    ELSE [calls |-> <<>>, replies |-> <<>>]

\* handle_message(websocket, data) for a JSON object: the packet_handler calls
\* made and the messages sent back
handle_message(data, os) ==
    LET id == data.servo_id
        One(type, r) == [calls |-> r.calls, replies |-> <<Reply(type, id, r)>>]
        Silent == [calls |-> <<>>, replies |-> <<>>]
        t == IF data.type \in Catalogue THEN data.type ELSE "else"
    IN CASE t = "ping" -> [calls |-> <<>>, replies |-> <<Said("pong", "None")>>]
         [] t = "scan_servos" ->
              One("scan_result", srv_scan_servos(1, MaxServoId + 1, os, 777))
         [] t \notin {"ping", "scan_servos", "else"} /\ ~data.complete -> Silent
         [] t = "get_servo_status" ->
              One("servo_status", get_servo_status(id, os, data.v))
         [] t = "move_servo" ->
              One("move_result",
                  srv_command("WritePosEx", id, <<data.v, 100, 50, 1000>>, os[1]))
         [] t = "stop_servo" ->
              One("stop_result", srv_command("EnableTorque", id, <<0>>, os[1]))
         [] t = "set_servo_id" ->
              One("servo_id_set_result", Out(<<>>, "True", <<>>, "None"))
         [] t = "read_memory" ->
              One("memory_read", read_memory_direct(id, data.v, 1, os[1], data.v))
         [] t = "write_memory" ->
              One("memory_write",
                  write_memory_direct(id, data.v, data.fmt, data.v, os[1]))
         [] t = "get_firmware_info" ->
              One("firmware_info", get_firmware_info(id, os, data.v))
         [] t = "read_pid_params" ->
              One("pid_params", read_pid_params(id, os, data.v))
         [] t = "write_pid_params" ->
              One("pid_params_write_result",
                  write_pid_params(id, data.groups, data.v, os))
         [] t = "read_temperature_limit" ->
              One("temperature_limit_read", read_temperature_limit(id, os, data.v))
         [] t = "write_temperature_limit" ->
              One("temperature_limit_write_result",
                  write_temperature_limit(id, data.v, os))
         [] OTHER ->
              [calls |-> <<>>,
               replies |-> <<Reply("error", 0,
                                   Out(<<>>, "n/a", <<data.type>>,
                                       "Unknown message type"))>>]

\* What the packet_handler calls of one message do: at most one of the first n
\* does not succeed (os[k] is the k-th call's outcome)
Faults(n) == {[k \in 1..8 |-> IF k = j THEN b ELSE Ok] : j \in 0..n, b \in Outcomes}
\* the most packet_handler calls the branch of a message type makes
MostCalls(type) ==
    CASE type \in {"ping", "set_servo_id"} -> 0
      [] type = "scan_servos" -> MaxServoId + 1
      [] type = "get_servo_status" -> 6
      [] type = "get_firmware_info" -> 5
      [] type \in {"read_pid_params", "write_pid_params"} -> 8
      [] type \in {"read_temperature_limit", "write_temperature_limit"} -> 3
      [] OTHER -> 1

\* what the previous message on the connection was
KindOf(data) ==
    IF data.kind # "object" THEN data.kind
    ELSE IF data.type \notin Catalogue THEN "unknown"
    ELSE IF data.type = "ping" THEN "ping" ELSE "request"

\* main(): builds the server, tries the hardware once and serves either way
Main ==
    /\ server.class = "none"
    /\ \E class \in Servers, o \in ConnOutcomes :
           server' = connect_hardware(class, o)
    /\ UNCHANGED <<connVars, toolVars, thrVars, opVars, present_position, guiVars,
                   session, mover>>

\* handle_client up to its loop: the connection confirmation is sent
ClientConnects ==
    /\ server.class # "none"
    /\ ~session.open
    /\ session' = [open |-> TRUE, prev |-> "none", data |-> NoMessage,
                   calls |-> <<>>,
                   replies |-> <<Reply("connection", 0,
                                       Out(<<>>,
                                           IF server.is_connected THEN "True" ELSE "False",
                                           <<>>, "None"))>>]
    /\ UNCHANGED <<connVars, toolVars, thrVars, opVars, present_position, guiVars,
                   server, mover>>

\* one turn of handle_client's loop: a frame arrives, json.loads parses it,
\* handle_message answers it, the two except clauses answer what raised
ReceiveMessage ==
    /\ session.open
    /\ \E data \in Messages :
       \E os \in Faults(IF data.kind = "object" /\ data.type \in Catalogue
                            /\ server.packet_handler # NoHandler
                            /\ (data.complete \/ data.type = "scan_servos")
                        THEN MostCalls(data.type) ELSE 0) :
         LET r == IF data.kind = "malformed"
                  THEN [calls |-> <<>>,
                        replies |-> <<Said("error", "Invalid JSON format")>>]
                  ELSE IF data.kind = "non_object"
                  THEN [calls |-> <<>>,
                        replies |-> <<Said("error", "Message handling error")>>]
                  ELSE handle_message(data, os)
         IN session' = [open |-> TRUE, prev |-> KindOf(session.data),
                        data |-> data, calls |-> r.calls, replies |-> r.replies]
    /\ UNCHANGED <<connVars, toolVars, thrVars, opVars, present_position, guiVars,
                   server, mover>>

\* the client goes away: the loop ends, finally discards the client
ClientCloses ==
    /\ session.open
    /\ session' = [open |-> FALSE, prev |-> "none", data |-> NoMessage,
                   calls |-> <<>>, replies |-> <<>>]
    /\ UNCHANGED <<connVars, toolVars, thrVars, opVars, present_position, guiVars,
                   server, mover>>

NextSrv ==
    \/ Main
    \/ ClientConnects
    \/ ReceiveMessage
    \/ ClientCloses

SpecSrv == Init /\ [][NextSrv]_vars

\* ------------------------------------------- BasicControl.move_to_position
\* read_position: hasReadPos is hasattr(protocol_handler, 'ReadPos'), pos the
\* position the servo reports; without ReadPos the two bytes at
\* PRESENT_POSITION_L are read and taken as a signed little-endian word
read_position(servo_id, hasReadPos, pos, o) ==
    IF protocol_handler # NoHandler /\ hasReadPos
    THEN LET c == Call("ReadPos", servo_id, 0, <<pos>>, o)
         IN IF o.raises THEN Res(<<c>>, <<>>, ERROR_OPERATION_FAILED, "Exception")
            ELSE Res(<<c>>, <<pos>>, o.result, o.error)
    ELSE IF NotConnected THEN Res(<<>>, <<>>, ERROR_OPERATION_FAILED, "NotConnected")
    ELSE LET data == MaskBytes(pos, 2)
             c == Call("readTxRx", servo_id, PRESENT_POSITION_L, data, o)
             u == data[1] + 256 * data[2]
         IN IF o.raises THEN Res(<<c>>, <<>>, ERROR_OPERATION_FAILED, "Exception")
            ELSE IF o.result = COMM_SUCCESS
            THEN Res(<<c>>, <<IF u >= 32768 THEN u - 65536 ELSE u>>, o.result, o.error)
            ELSE Res(<<c>>, <<>>, o.result, o.error)

\* the position tolerance of move_to_position
tolerance == 10
\* (variant: only the target itself counts as reached)
exactly_at(current_pos, position) == current_pos = position
within_tolerance(current_pos, position) == Abs(current_pos - position) <= tolerance

\* move_to_position up to its loop: the position command is sent; timeout is
\* in sleeps of 0.05 s
MoveToPosition ==
    /\ Idle
    /\ mover.pc = "idle"
    /\ \E id \in ServoIds, position \in {SMS_STS_MIDDLE_POSITION, MAX_POSITION + 1},
          timeout \in 0..MaxTimeout, hasEx \in BOOLEAN, hasReadPos \in BOOLEAN,
          o \in Vec(1) :
         LET w == write_position(id, position, 100, 50, hasEx, o)
         IN IF w.result # COMM_SUCCESS
            THEN /\ Do("move_to_position", id, <<position, timeout>>,
                       Res(w.calls, Bool("False"), COMM_SUCCESS, "None"))
                 /\ UNCHANGED mover
            ELSE /\ op' = [name |-> "move_to_position", id |-> id,
                           args |-> <<position, timeout>>]
                 /\ calls' = w.calls
                 /\ ret' = NoRet
                 /\ mover' = [pc |-> "loop", elapsed |-> 0, hasReadPos |-> hasReadPos]
    /\ UNCHANGED <<srvVars, connVars, toolVars, thrVars, present_position, guiVars>>

\* one turn of the loop, entered while the timeout has not elapsed: a read,
\* then either the return of True or a sleep; d is how many sleeps' worth of
\* time the turn took
MovePoll ==
    /\ mover.pc = "loop"
    /\ mover.elapsed < op.args[2]
    /\ \E o \in Outcomes, d \in 1..2 :
       \E off \in IF o = Ok THEN {-11, -10, 10, 11} ELSE {0} :
         LET r == read_position(op.id, mover.hasReadPos, op.args[1] + off, o)
         IN /\ calls' = calls \o r.calls
            /\ IF r.result = COMM_SUCCESS /\ within_tolerance(r.value[1], op.args[1])
               THEN /\ ret' = [value |-> Bool("True"), result |-> COMM_SUCCESS,
                               error |-> "None", raised |-> FALSE]
                    /\ mover' = [mover EXCEPT !.pc = "idle"]
               ELSE /\ ret' = ret
                    /\ mover' = [mover EXCEPT !.elapsed = @ + d]
    /\ UNCHANGED <<srvVars, connVars, toolVars, thrVars, op, present_position, guiVars>>

\* the loop condition fails: the timeout has elapsed, False is returned
MoveTimeout ==
    /\ mover.pc = "loop"
    /\ mover.elapsed >= op.args[2]
    /\ ret' = [value |-> Bool("False"), result |-> COMM_SUCCESS,
               error |-> "None", raised |-> FALSE]
    /\ mover' = [mover EXCEPT !.pc = "idle"]
    /\ UNCHANGED <<srvVars, connVars, toolVars, thrVars, op, calls, present_position, guiVars>>

NextMove ==
    \/ Connect
    \/ Disconnect
    \/ MoveToPosition
    \/ MovePoll
    \/ MoveTimeout
    \/ TakeResult

\* time passes and reads return: a call inside its loop takes its next turn
SpecMove == Init /\ [][NextMove]_vars /\ WF_vars(MovePoll \/ MoveTimeout)


\* ------------------------------------------------------------------ C4
\* C4: whenever connect() returns failure, whatever the failing stage, the
\* serial port is closed and is_connected is false at the return.
FailedConnectLeavesPortClosed ==
    \A t \in Threads :
        (pc[t] = "ret" /\ call[t].name = "connect" /\ retval[t] = "False")
            => (~is_connected /\ OpenHandles(handles) = {})

\* a connect that had opened the port returns failure
FailedConnectAfterOpen ==
    \E t \in Threads :
        /\ pc[t] = "ret" /\ call[t].name = "connect" /\ retval[t] = "False"
        /\ Len(handles) = 1 /\ handles[1].opened /\ handles[1].closes = 1
        /\ port_handler = None

\* ------------------------------------------------------------------ C10
\* C10: under any interleaving of connect() and disconnect() calls by several
\* threads, the port is never opened while it is already open, a port that was
\* opened is closed at most once, and when all calls have returned is_connected
\* is true exactly if the port is open.
ConnectDisconnectExclusive ==
    /\ \A h \in DOMAIN handles : ~handles[h].clash
    /\ Cardinality(OpenHandles(handles)) <= 1
    /\ \A h \in DOMAIN handles : handles[h].opened => handles[h].closes <= 1
    /\ (\A t \in Threads : pc[t] = "idle") => (is_connected <=> OpenHandles(handles) # {})

\* one thread waits for the lock while another is inside connect with the port
\* open, after an earlier port was opened and closed
ThreadWaitsDuringConnect ==
    \E t, u \in Threads :
        /\ pc[t] = "acquire" /\ call[t].name = "disconnect"
        /\ pc[u] = "c_set" /\ connection_lock = u
        /\ Len(handles) = 2 /\ handles[1].opened /\ handles[1].closes = 1
        /\ handles[2].open

\* ------------------------------------------------ reading the call log
BracketedWrites ==
    {"write_position_pid", "write_speed_pid", "write_startup_torque",
     "configure_temperature_limit", "configure_voltage_limits"}
IsUnlock(c) == c.fn = "unLockEprom" /\ c.id = op.id
IsLock(c) == c.fn = "LockEprom" /\ c.id = op.id
IsWrite(c) == c.fn = "writeTxRx" /\ c.id = op.id
Succeeded(c) == ~c.out.raises /\ c.out.result = COMM_SUCCESS
Reported(c) == ~c.out.raises /\ c.out.result # COMM_SUCCESS
UnlockSucceeded == calls # <<>> /\ IsUnlock(calls[1]) /\ Succeeded(calls[1])
UnlockReportedFailure == calls # <<>> /\ IsUnlock(calls[1]) /\ Reported(calls[1])

\* ------------------------------------------------------------------ C1
\* C1: a PID or safety write whose unlock succeeded made exactly the calls
\* unlock(id), one or more register writes, lock(id), whatever the writes
\* reported
UnlockWritesLock ==
    (op.name \in BracketedWrites /\ UnlockSucceeded)
        => /\ Len(calls) >= 3
           /\ IsLock(calls[Len(calls)])
           /\ \A k \in 2..(Len(calls) - 1) : IsWrite(calls[k])

\* ------------------------------------------------------------------ C2
\* C2: when the unlock of a PID or safety write reports a non-success result,
\* nothing is called after it and the operation returns the unlock's result
\* code and error
UnlockFailureShortCircuits ==
    (op.name \in BracketedWrites /\ UnlockReportedFailure)
        => /\ Len(calls) = 1
           /\ ~ret.raised
           /\ ret.result = calls[1].out.result
           /\ ret.error = calls[1].out.error

UnlockTimedOut ==
    /\ op.name = "configure_voltage_limits"
    /\ UnlockReportedFailure
    /\ calls[1].out.result = COMM_RX_TIMEOUT
    /\ ret.result = COMM_RX_TIMEOUT

\* ------------------------------------------------------------------ C3
\* the ranges of the validated operations, from the arguments of the call
ArgsInRange ==
    CASE op.name = "write_position" ->
            /\ InRange(0, op.args[1], 4095)
            /\ InRange(0, op.args[2], 2047)
            /\ InRange(0, op.args[3], 255)
      [] op.name = "write_speed" -> InRange(-2047, op.args[1], 2047)
      [] op.name = "set_torque_limit" -> InRange(0, op.args[1], 2047)
      [] op.name = "write_position_pid" -> \A k \in 1..3 : InRange(0, op.args[k], 255)
      [] op.name = "write_speed_pid" ->
            InRange(0, op.args[1], 255) /\ InRange(-32768, op.args[2], 32767)
      [] op.name = "write_startup_torque" -> InRange(0, op.args[1], 255)
      [] op.name = "configure_temperature_limit" -> InRange(0, op.args[1], 100)
      [] op.name = "set_servo_id" -> InRange(1, op.args[1], 253)
      [] OTHER -> TRUE
Validated ==
    {"write_position", "write_speed", "set_torque_limit", "write_position_pid",
     "write_speed_pid", "write_startup_torque", "configure_temperature_limit",
     "set_servo_id"}

\* C3: a validated operation given a parameter outside its range returns
\* InvalidInput and calls nothing on the transport; given parameters inside the
\* range (the boundaries included) it is not refused and, on a connected
\* manager, reaches the transport
ValidationGuardsTransport ==
    op.name \in Validated =>
        IF ArgsInRange
        THEN /\ ret.result # ERROR_INVALID_PARAMETER
             /\ is_connected => calls # <<>>
        ELSE /\ ret.result = ERROR_INVALID_PARAMETER
             /\ ~ret.raised
             /\ calls = <<>>

TorqueLimitBoundaryAccepted ==
    /\ op.name = "set_torque_limit"
    /\ op.args = <<2047>>
    /\ is_connected
    /\ Len(calls) = 1
    /\ Succeeded(calls[1])
    /\ ret.result = COMM_SUCCESS

\* ------------------------------------------------------------------ C5
\* C5: on a manager that is not connected ping, read_memory and write_memory
\* return OperationFailed without a transport call, and scan_servos returns
\* the empty list without a ping and without raising
NotConnectedIsLocal ==
    ~is_connected =>
        /\ op.name \in {"ping", "read_memory", "write_memory"}
              => (ret.result = ERROR_OPERATION_FAILED /\ ~ret.raised /\ calls = <<>>)
        /\ op.name = "scan_servos"
              => (ret.value = <<>> /\ ~ret.raised /\ calls = <<>>)

PingAfterFailedConnect ==
    /\ op.name = "ping"
    /\ ~is_connected
    /\ Len(handles) = 1 /\ handles[1].opened /\ ~handles[1].open
    /\ ret.result = ERROR_OPERATION_FAILED

\* ------------------------------------------------------------------ C6
\* C6: no operation lets an exception reach its caller
NoOperationRaises == ~ret.raised

\* ------------------------------------------------------------------ C9
CalibrateCenter == {"write_middle_offset", "quick_calibrate_servo"}
IsWrite128(c) ==
    /\ c.fn = "write1ByteTxRx"
    /\ c.id = op.id
    /\ c.addr = SMS_STS_TORQUE_ENABLE
    /\ c.data = <<128>>

PortHasOneOwner == ~(child = "holding" /\ worker.port = "open")

\* ------------------------------------------------------------------ C8
LiveProcessors == {t \in 1..MaxProcessors : processor[t].pc # "none"}

\* C8: ID changes are executed by a single worker thread, in submission order,
\* each one ended before the next begins
IdChangesOneAtATimeInOrder ==
    /\ Cardinality(LiveProcessors) <= 1
    /\ \A i \in DOMAIN id_log :
         id_log[i] = Event(IF i % 2 = 1 THEN "begin" ELSE "end", (i + 1) \div 2)

\* ------------------------------------------------------------------ C11
\* C11: a reset_connection that succeeds on a manager connected with protocol
\* p leaves a protocol handler of the same variant p
ResetKeepsProtocol ==
    (op.name = "reset_connection" /\ op.args[1] \in PROTOCOLS /\ ret.value = <<1>>)
        => protocol_handler = op.args[1]

\* ------------------------------------------------------------------ C12
Responders == SelectSeq(calls, Succeeded)

\* C12: scan_servos on a connected manager pings each id of [start, end] once,
\* in ascending order, and returns one entry per id whose ping succeeded, in
\* ascending order, with connected = true and the model number of its ping
ScanListsResponders ==
    (op.name = "scan_servos" /\ is_connected) =>
        /\ Len(calls) = op.args[2] - op.args[1] + 1
        /\ \A k \in DOMAIN calls :
             calls[k].fn = "ping" /\ calls[k].id = op.args[1] + k - 1
        /\ ~ret.raised
        /\ ret.value = [k \in 1..Len(Responders) |->
                          [id |-> Responders[k].id,
                           model_number |-> Responders[k].data[1],
                           connected |-> TRUE]]

ScanSkipsSilentServo ==
    /\ op.name = "scan_servos"
    /\ op.args = <<1, 2>>
    /\ is_connected
    /\ Len(calls) = 2
    /\ calls[1].out.result = COMM_RX_TIMEOUT
    /\ Succeeded(calls[2])
    /\ ret.value = <<[id |-> 2, model_number |-> 777, connected |-> TRUE]>>

\* ------------------------------------------------------------------ C13
\* C13: in both control servers a received message that is not valid JSON, or
\* whose type is not in the message catalogue, gets exactly one reply, of type
\* "error" (naming the type when it was unrecognised); the connection stays
\* open, and a ping that follows on the same connection is answered with pong.
BadMessageGetsOneError ==
    /\ KindOf(session.data) \in {"malformed", "unknown"} =>
          /\ session.open
          /\ Len(session.replies) = 1
          /\ session.replies[1].type = "error"
          /\ KindOf(session.data) = "unknown" =>
                session.replies[1].data = <<session.data.type>>
    /\ (session.prev \in {"malformed", "unknown"} /\ KindOf(session.data) = "ping") =>
          /\ session.open
          /\ Len(session.replies) = 1
          /\ session.replies[1].type = "pong"

\* the branded server has answered a ping that followed a message of a type
\* only the other script's name suggests
PongAfterUnknownType ==
    /\ server.class = "SeeedRoboCoreServer"
    /\ session.open
    /\ session.prev = "unknown"
    /\ session.data.type = "ping"
    /\ session.replies = <<Said("pong", "None")>>

\* ------------------------------------------------------------------ C14
\* C14: when the hardware connection attempt at startup failed, the server
\* still accepts clients, and every hardware request that carries its required
\* fields is answered by one reply that reports failure (success false,
\* connected false, an empty scan, or absent data); nothing reaches the
\* hardware and the client loop goes on.
HardwareRequests == Catalogue \ {"ping", "set_servo_id"}
ReportsFailure(reply) ==
    CASE reply.type = "scan_result" -> reply.data = <<>>
      [] reply.type \in {"firmware_info", "pid_params"} ->
            \A k \in DOMAIN reply.data : reply.data[k] = <<>>
      [] reply.type = "servo_status" ->
            /\ reply.success = "False"
            /\ \A k \in DOMAIN reply.data : reply.data[k] = <<>>
      [] reply.type \in {"memory_read", "temperature_limit_read"} ->
            /\ reply.success = "False"
            /\ \A k \in DOMAIN reply.data : reply.data[k] = <<>>
      [] OTHER -> reply.success = "False"
PolledPosition(c) ==
    IF c.fn = "ReadPos" THEN c.data[1] ELSE c.data[1] + 256 * c.data[2]
OnTarget(c) ==
    /\ c.fn \in {"ReadPos", "readTxRx"}
    /\ Succeeded(c)
    /\ Abs(PolledPosition(c) - op.args[1]) <= 10
MoveReturned == op.name = "move_to_position" /\ mover.pc = "idle"
MoveWritesThenPolls ==
    op.name = "move_to_position" =>
        /\ \A k \in DOMAIN calls :
              IF k = 1 THEN calls[k].fn \in {"WritePosEx", "writeTxRx"}
              ELSE calls[k].fn \in {"ReadPos", "readTxRx"}
        /\ (calls = <<>> \/ ~Succeeded(calls[1])) =>
              (MoveReturned /\ ret.value = <<0>> /\ Len(calls) <= 1)
        /\ \A k \in 2..(Len(calls) - 1) : ~OnTarget(calls[k])
        /\ mover.pc = "loop" => \A k \in 2..Len(calls) : ~OnTarget(calls[k])
        /\ MoveReturned =>
              /\ ~ret.raised
              /\ ret.value = <<1>> <=> (Len(calls) >= 2 /\ OnTarget(calls[Len(calls)]))
              /\ (ret.value = <<0>> /\ calls # <<>> /\ Succeeded(calls[1])) =>
                    mover.elapsed >= op.args[2]
MoveToPositionReturns ==
    /\ []MoveWritesThenPolls
    /\ (mover.pc = "loop") ~> (mover.pc = "idle")

\* a move returned true on its second poll, 10 units off the target, after a
\* poll that timed out
MoveArrivesAfterFailedPoll ==
    /\ MoveReturned
    /\ ret.value = <<1>>
    /\ Len(calls) = 3
    /\ Reported(calls[2])
    /\ Succeeded(calls[3]) /\ Abs(PolledPosition(calls[3]) - op.args[1]) = 10

\* ------------------------------------------------------------------ C16
\* C16: set_pid_params attempts every group it is given (position PID, speed
\* PID, startup torque), also after an earlier group failed; it returns true
\* only if every unlock and write it made succeeded; no register is written a
\* second time, so nothing applied is rolled back.
GroupsSupplied ==
    (IF op.args[1] = 3 THEN 1 ELSE 0) + (IF op.args[2] = 2 THEN 1 ELSE 0) + op.args[3]
GroupRegisters ==
    (IF op.args[1] = 3 THEN {POSITION_P_GAIN, POSITION_I_GAIN, POSITION_D_GAIN} ELSE {})
        \cup (IF op.args[2] = 2 THEN {SPEED_P_GAIN, SPEED_I_GAIN_L} ELSE {})
        \cup (IF op.args[3] = 1 THEN {STARTUP_TORQUE} ELSE {})
SetPidAppliesEveryGroup ==
    op.name = "set_pid_params" =>
        /\ ~ret.raised
        /\ (is_connected /\ op.args[4] <= MAX_PID_GAIN) =>
              /\ Len(SelectSeq(calls, IsUnlock)) = GroupsSupplied
              /\ (\A k \in DOMAIN calls : Succeeded(calls[k])) =>
                    /\ {calls[k].addr : k \in {j \in DOMAIN calls : IsWrite(calls[j])}}
                          = GroupRegisters
                    /\ ret.value = <<1>>
        /\ ret.value = <<1>> =>
              /\ op.args[1] = 3 => op.args[4] <= MAX_PID_GAIN
              /\ \A k \in DOMAIN calls :
                    /\ ~calls[k].out.raises
                    /\ (IsUnlock(calls[k]) \/ IsWrite(calls[k])) => Succeeded(calls[k])
        /\ \A j, k \in DOMAIN calls :
              (j < k /\ IsWrite(calls[j]) /\ IsWrite(calls[k]))
                  => calls[j].addr # calls[k].addr

\* the position P write failed; the speed PID and the startup torque were
\* written all the same and false was returned
SetPidGoesOnAfterFailedGroup ==
    /\ op.name = "set_pid_params"
    /\ op.args = <<3, 2, 1, 32>>
    /\ Len(calls) = 9
    /\ IsWrite(calls[2]) /\ calls[2].addr = POSITION_P_GAIN /\ Reported(calls[2])
    /\ IsWrite(calls[4]) /\ calls[4].addr = SPEED_P_GAIN /\ Succeeded(calls[4])
    /\ IsWrite(calls[8]) /\ calls[8].addr = STARTUP_TORQUE /\ Succeeded(calls[8])
    /\ ret.value = <<0>>

\* ------------------------------------------------------------------ C17
\* C17: on a connected servo whose transport reports success for every call,
\* reset_pid_to_default writes position PID P=32, I=0, D=32, speed PID P=10,
\* I=200 and startup torque 16 to their registers and returns true.
DefaultWrites ==
    {<<POSITION_P_GAIN, <<32>>>>, <<POSITION_I_GAIN, <<0>>>>, <<POSITION_D_GAIN, <<32>>>>,
     <<SPEED_P_GAIN, <<10>>>>, <<SPEED_I_GAIN_L, <<200, 0>>>>, <<STARTUP_TORQUE, <<16>>>>}
ResetWritesDefaults ==
    (/\ op.name = "reset_pid_to_default"
     /\ is_connected
     /\ \A k \in DOMAIN calls : Succeeded(calls[k]))
        => /\ ret.value = <<1>>
           /\ {<<calls[k].addr, calls[k].data>> :
                  k \in {j \in DOMAIN calls : IsWrite(calls[j])}} = DefaultWrites

\* ------------------------------------------------------------------ C18
\* C18: in read_position_pid, read_speed_pid and read_startup_torque a failed
\* EEPROM unlock ends the operation (no register read follows it) and the
\* caller is told of the failure; after a successful unlock the reads are
\* followed by a lock on every path.
PidReads == {"read_position_pid", "read_speed_pid", "read_startup_torque"}
UnlockFailureAbortsRead ==
    (op.name \in PidReads /\ calls # <<>>) =>
        /\ IsUnlock(calls[1])
        /\ ~Succeeded(calls[1]) => (Len(calls) = 1 /\ ret.result # COMM_SUCCESS)
        /\ Succeeded(calls[1]) =>
              /\ Len(calls) >= 3
              /\ IsLock(calls[Len(calls)])
              /\ \A k \in 2..(Len(calls) - 1) :
                    calls[k].fn = "readTxRx" /\ calls[k].id = op.id

ScanLoopRunning(p) == panels[p].running /\ \E t \in 1..MaxScanThreads : panels[p].scan[t] # "none"

\* C21: once the child of a quick action (calibration, test or disable) on a
\* pane's port has ended - with code 0, with another code, or because
\* launching or monitoring it raised - the thread of the action eventually
\* reaches its restart, and when it has, that pane's worker is flagged running
\* and has a live scan thread
QuickActionRestartsScan ==
    /\ [][\A p \in Panes :
            (quick.port = p /\ quick.process \in Ended /\ quick' = NoQuick)
                => (panels'[p].running
                    /\ \E t \in 1..MaxScanThreads : panels'[p].scan[t] # "none")]_vars
    /\ (quick.process \in Ended) ~> (quick = NoQuick)

\* a quick action whose launch raised, on a pane it had stopped and whose scan
\* threads have all ended
QuickRaisedOnStoppedPane ==
    /\ quick.process = "raised"
    /\ quick.action = "disable"
    /\ ~panels[quick.port].running
    /\ \A t \in 1..MaxScanThreads : panels[quick.port].scan[t] = "none"

\* C22: when remote control is turned on, both panes' workers are stopped by
\* the time the child is launched
RemoteOnStopsBothWorkers ==
    [][(~remote_worker.running /\ remote_worker'.running)
          => \A p \in Panes : ~panels'[p].running]_vars

\* C23: a call of start_continuous_monitoring made while monitoring is running
\* starts no worker and leaves the monitored IDs, the interval and the
\* registered callbacks as they were
StartWhileMonitoringIsNoOp ==
    [][(op = NoOp /\ op'.name = "start_continuous_monitoring" /\ monitor.is_monitoring)
          => monitor' = monitor]_vars

\* start was called with a callback and other IDs while monitoring was running
StartedWhileMonitoring ==
    /\ op.name = "start_continuous_monitoring"
    /\ op.args[4]
    /\ op.args[3] # "None"
    /\ op.args[1] # monitor.monitor_thread.servo_ids
    /\ op.args[2] # monitor.monitor_thread.interval

\* C24: in a tick the worker takes the monitored IDs in the given order,
\* computes the status of each once and then calls the registered callbacks
\* in registration order with that ID and status, whether or not an earlier
\* callback raised; a tick that has ended has done so for every ID
TickCallsEveryCallback ==
    LET t == monitor.monitor_thread
        whole(k) == tick[k].j = tick[k].n
    IN
    /\ \A k \in 1..Len(tick) :
         LET e == tick[k] IN
         /\ e.id = t.servo_ids[e.i]
         /\ IF e.j = 0
            THEN IF k = 1 THEN e.i = 1 ELSE e.i = tick[k - 1].i + 1 /\ whole(k - 1)
            ELSE /\ k > 1
                 /\ e.i = tick[k - 1].i
                 /\ e.j = tick[k - 1].j + 1
                 /\ e.status = tick[k - 1].status
                 /\ e.cb = monitor.monitor_callbacks[e.j]
    /\ t.pc = "sleep" =>
         /\ Len(tick) > 0
         /\ tick[Len(tick)].i = Len(t.servo_ids)
         /\ whole(Len(tick))

\* a tick over two IDs has ended in which the first callback raised for the
\* first ID and the second callback and the second ID were still served
TickWentOnAfterRaise ==
    /\ monitor.monitor_thread.pc = "sleep"
    /\ Len(tick) = 6
    /\ tick[2].raised
    /\ ~tick[3].raised
    /\ tick[6].j = 2

\* the band of the ratio temperature / limit
Band(t, L) ==
    IF 10 * t >= 9 * L THEN "critical"
    ELSE IF 10 * t >= 8 * L THEN "warning"
    ELSE IF 10 * t >= 6 * L THEN "caution"
    ELSE "normal"

\* C25: for a temperature and a limit above 0 that get_complete_status read,
\* the status carries the warning level of the band the ratio falls in, a
\* ratio on a boundary falling into the higher band
WarningLevelIsBandOfRatio ==
    (/\ op.name = "get_complete_status"
     /\ op.args[1].ok
     /\ op.args[2].ok
     /\ op.args[2].v > 0)
        => /\ "temp_warning_level" \in DOMAIN ret.advanced
           /\ ret.advanced["temp_warning_level"] = Band(op.args[1].v, op.args[2].v)

\* the servos of a report whose health is h, by the spec's rule
Classed(h) ==
    {k \in 1..Len(op.args) :
        LET t == op.args[k][1].v
            L == op.args[k][2].v
            bits == \E b \in 0..5 : BitSet(op.args[k][3].v, b)
        IN h = IF Band(t, L) = "critical" \/ bits THEN "critical"
               ELSE IF Band(t, L) = "warning" THEN "warning"
               ELSE "healthy"}

\* C26: the health report counts every servo found in exactly one class -
\* critical for level critical or an error bit set, warning for level warning
\* without error bits, healthy otherwise - and the counts add up to
\* total_servos, the number found
HealthReportPartitionsServos ==
    op.name = "get_system_health_report" =>
        /\ ret.total_servos = Len(op.args)
        /\ ret.critical_servos = Cardinality(Classed("critical"))
        /\ ret.warning_servos = Cardinality(Classed("warning"))
        /\ ret.healthy_servos = Cardinality(Classed("healthy"))
        /\ ret.critical_servos + ret.warning_servos + ret.healthy_servos = ret.total_servos
        /\ \A k \in 1..Len(op.args) : k \in Classed(ret.servo_details[k])

\* the report of three servos: one with an error bit set, one at ratio 0.95
\* and one at ratio 0.3, counted critical 2, warning 0, healthy 1
ReportOfThreeServos ==
    /\ op.name = "get_system_health_report"
    /\ op.args = << <<Reading(24), Reading(80), Reading(4)>>,
                    <<Reading(76), Reading(80), Reading(0)>>,
                    <<Reading(24), Reading(80), Reading(0)>> >>
    /\ ret.critical_servos = 2
    /\ ret.warning_servos = 0
    /\ ret.healthy_servos = 1
    /\ ret.total_servos = 3

\* C27 as stated: a no at any of the six prompts skips only that step, so the
\* workflow returns before the sixth prompt only after a step that was run
EveryNoSkipsOnlyItsStep ==
    (calibrator.ret # "None" /\ Len(calibrator.answers) < 6)
        => calibrator.answers[Len(calibrator.answers)] = "y"

\* C27: a no at the disable, read, calibrate or center prompt skips only that
\* step - the steps run are those answered yes, and once the scan has been
\* run the workflow offers all six prompts and returns True; only at the
\* connect and scan prompts (or when connect or scan fails) does it return early
NoSkipsOnlyOptionalStep ==
    LET c == calibrator IN
    /\ \A k \in 3..6 : k <= Len(c.answers) => (k \in c.performed <=> c.answers[k] = "y")
    /\ (c.ret # "None" /\ Len(c.answers) < 6) => Len(c.answers) <= 2
    /\ (c.ret # "None" /\ Len(c.answers) >= 3) => (c.ret = "True" /\ Len(c.answers) = 6)
    /\ (c.ret = "None" /\ c.step > 0) => c.step = Len(c.answers) + 1

\* the workflow has returned True with the disable and calibrate prompts
\* answered no and the read and center steps run
SkippedDisableAndCalibrate ==
    /\ calibrator.ret = "True"
    /\ calibrator.answers = <<"y", "y", "n", "y", "EOF", "y">>
    /\ calibrator.performed = {1, 2, 4, 6}

MasterRead(c) == c.port = "master" /\ c.fn = "ReadPos"
SlaveCommand(c) == c.port = "slave" /\ c.fn = "WritePosEx"

\* C28: in an iteration of the mirror loop the master port is read once per ID
\* 1..6 in order; a position command goes to the slave port exactly after a
\* read that succeeded, for the same ID, with the position just read, speed
\* 3000 and acceleration 100; and nothing but reads is ever issued on the
\* master port
MirrorCommandsWhatItRead ==
    /\ \A k \in 1..Len(calls) : calls[k].port = "master" => calls[k].fn = "ReadPos"
    /\ op.name = "sync_iteration" =>
         LET reads == SelectSeq(calls, MasterRead) IN
         /\ [k \in 1..Len(reads) |-> reads[k].id] = [k \in 1..6 |-> k]
         /\ \A k \in 1..Len(calls) :
              /\ MasterRead(calls[k]) =>
                   (Succeeded(calls[k])
                      <=> /\ k < Len(calls)
                          /\ SlaveCommand(calls[k + 1])
                          /\ calls[k + 1].id = calls[k].id
                          /\ calls[k + 1].data = <<op.args[calls[k].id], 3000, 100>>)
              /\ ~MasterRead(calls[k]) =>
                   /\ SlaveCommand(calls[k])
                   /\ k > 1
                   /\ MasterRead(calls[k - 1])
                   /\ Succeeded(calls[k - 1])

\* an iteration in which a master servo stood at position 0, the read of ID 2
\* failed and that of ID 3 succeeded after it
MirroredAroundFailedRead ==
    /\ op.name = "sync_iteration"
    /\ op.args[1] = 0
    /\ Len(calls) = 11
    /\ calls[2].data = <<0, 3000, 100>>
    /\ Reported(calls[3])
    /\ SlaveCommand(calls[5])

\* the six writes of 0 to the torque-enable register, one per ID in ascending
\* order
SixDisableWrites(cs) ==
    /\ Len(cs) = 6
    /\ \A k \in 1..6 : /\ cs[k].fn = "write1ByteTxRx"
                       /\ cs[k].id = k
                       /\ cs[k].addr = SMS_STS_TORQUE_ENABLE
                       /\ cs[k].data = <<0>>

AllSucceeded(run) == run.opened /\ \A k \in 1..Len(run.calls) : Succeeded(run.calls[k])

SignedRoundTripIsIdentity ==
    op.name = "round_trip" =>
        LET value == op.args[1]
            w == op.args[2]
            data == op.args[3]
        IN /\ Len(data) = w
           /\ \A i \in 1..w : data[i] = (value \div Pow256(i - 1)) % 256
           /\ ret.value = <<value>>

\* the lowest four-byte value went through: 0, 0, 0, 128 and back
RoundTripOfLowestInt ==
    /\ op.name = "round_trip"
    /\ op.args = <<-2147483647 - 1, 4, <<0, 0, 0, 128>> >>
    /\ ret.value = <<-2147483647 - 1>>

\* ------------------------------------------------------------------ C31
Scanning == {t \in 1..MaxScanThreads : scanner[t] = "s_scan"}
Reassigning == {t \in 1..MaxProcessors : processor[t].pc = "p_bus"}

\* C31: while a thread is inside execute_id_change on the pane's bus, no scan
\* thread of the pane is inside scan_servos
ScanPausedDuringIdChange == ~(Scanning # {} /\ Reassigning # {})

\* ------------------------------------------------------------------ C32
\* the five transport calls of one reassignment, in order
IdChangeSequence(old_id, new_id) ==
    << <<"ping", old_id, 0, <<>> >>,
       <<"unLockEprom", old_id, 0, <<>> >>,
       <<"write1ByteTxRx", old_id, 5, <<new_id>> >>,
       <<"ping", new_id, 0, <<>> >>,
       <<"LockEprom", new_id, 0, <<>> >> >>

IdChangeOnBus == op.name = "execute_id_change" /\ op.args[2]

IdChangeStepsInOrder ==
    LET seq == IdChangeSequence(op.id, op.args[1]) IN
    /\ Len(calls) \in 1..5
    /\ \A k \in 1..Len(calls) :
         /\ <<calls[k].fn, calls[k].id, calls[k].addr, calls[k].data>> = seq[k]
         /\ k < Len(calls) => Succeeded(calls[k])

FourStepsSucceeded == Len(calls) >= 4 /\ \A k \in 1..4 : Succeeded(calls[k])

\* C32: the steps of a reassignment run in order, each only after the previous
\* one succeeded, and the request is reported successful exactly when
\* ping-old, unlock, write and ping-new all succeeded, whatever the re-lock did
IdChangeSucceedsIffFourSteps ==
    IdChangeOnBus =>
        /\ IdChangeStepsInOrder
        /\ ret.value = <<1>> <=> FourStepsSucceeded

\* ------------------------------------------------------------------ C33
\* no ID-change thread holds a request
ProcessorsIdle ==
    \A t \in 1..MaxProcessors : processor[t].pc \in {"none", "p_while", "p_empty", "p_end"}

\* C33: with the ID-change queue empty and no thread holding a request the
\* pause flag is clear; a set pause flag is always cleared again; and a
\* running, connected worker that was paused gets to scan again
PauseIsAlwaysCleared ==
    /\ []((id_change_queue = <<>> /\ ProcessorsIdle) => ~worker.pause_scanning)
    /\ worker.pause_scanning ~> ~worker.pause_scanning
    /\ (worker.pause_scanning /\ worker.running /\ worker.is_connected)
          ~> (Scanning # {} \/ ~worker.running \/ ~worker.is_connected)

\* a request was executed on the connected pane's bus, the flag is clear again
\* and the scan thread is back in scan_servos
ScanningAgainAfterIdChange ==
    /\ id_log = <<Event("begin", 1), Event("end", 1)>>
    /\ id_change_queue = <<>>
    /\ ProcessorsIdle
    /\ worker.is_connected
    /\ ~worker.pause_scanning
    /\ Scanning # {}

\* ------------------------------------------------------------------ C34
LiveScanners == {t \in 1..MaxScanThreads : scanner[t] # "none"}

\* C34: at most one thread of the pane's worker is running run_scanner and at
\* most one is running process_id_changes
OneScanThreadOneIdChangeThread ==
    /\ Cardinality(LiveScanners) <= 1
    /\ Cardinality(LiveProcessors) <= 1

\* ------------------------------------------------------------------ C35
\* the threads that are inside _monitoring_loop
MonitoringLoops ==
    (IF monitor.monitor_thread.pc # "none" THEN {0} ELSE {})
        \cup {k \in 1..MaxEarlier : loops[k].pc # "none"}

\* C35: at most one thread of a StatusMonitor is inside _monitoring_loop
OneMonitoringLoop == Cardinality(MonitoringLoops) <= 1

\* ------------------------------------------------------------------ C36
\* C36: once monitoring is stopped every worker thread leaves its loop unless
\* monitoring is started again, a thread that has left does nothing more, and
\* no thread appears without a start
StoppedLoopEnds ==
    /\ ~monitor.is_monitoring ~> (MonitoringLoops = {} \/ monitor.is_monitoring)
    /\ [][(MonitoringLoops = {} /\ ~monitor'.is_monitoring)
            => (MonitoringLoops' = {} /\ tick' = tick)]_vars

\* monitoring was started twice and is stopped: the newer worker has left its
\* loop and the older one is in the sleep that ends its last tick
StoppedWithOneLoopLeft ==
    /\ ~monitor.is_monitoring
    /\ monitor.monitor_thread.pc = "none"
    /\ \E k \in 1..MaxEarlier : loops[k].pc = "sleep"

\* ------------------------------------------------------------------ C37
\* C37: while the worker is stopped (stop() has cleared running and closed the
\* port, start() has not been called since) no step sets is_connected or
\* opens the port
StoppedWorkerStaysDisconnected ==
    [][(~worker.running /\ ~worker.is_connected)
          => (~worker'.is_connected /\ worker'.port # "open")]_vars

\* ------------------------------------------------------------------ C38
\* C38: whenever no remote-control session is running (none was started, the
\* launch failed, or the child ended by itself), both panes' workers are
\* eventually running
WorkersRunAfterRemoteEnds ==
    ~remote_worker.running ~> (\A p \in Panes : panels[p].running)

\* ------------------------------------------------------------------ C39
\* C39: the last frame received on the connection, when it is a JSON object
\* whose type is in the server's catalogue, was answered by exactly one message
CatalogueMessageGetsOneReply ==
    (/\ session.open
     /\ session.data.kind = "object"
     /\ session.data.type \in Catalogue)
        => Len(session.replies) = 1

\* ------------------------------------------------------------------ C40
\* no connect or disconnect call is inside the lock
NoCallInProgress == connection_lock = NoThread

\* C40: with no connect or disconnect in progress, is_connected holds exactly
\* if both handler references are set, and a manager that is not connected
\* has both references cleared
HandlersSetIffConnected ==
    NoCallInProgress =>
        /\ is_connected <=> (port_handler # None /\ protocol_handler # NoHandler)
        /\ ~is_connected => (port_handler = None /\ protocol_handler = NoHandler)

\* C40: with no connect or disconnect in progress, is_connected holds exactly
\* if both handler references are set; a manager that is not connected has no
\* protocol handler, and the port handler it may still refer to (kept by a
\* connect that returned False without raising) is closed
HandlersSetIffConnectedStaleClosed ==
    NoCallInProgress =>
        /\ is_connected <=> (port_handler # None /\ protocol_handler # NoHandler)
        /\ ~is_connected =>
              /\ protocol_handler = NoHandler
              /\ port_handler # None => ~handles[port_handler].open

\* a connect whose setBaudRate was refused has returned: the manager is not
\* connected and still refers to the port handler it opened and closed
HandlerKeptAfterRefusedBaudRate ==
    /\ NoCallInProgress
    /\ ~is_connected
    /\ port_handler # None
    /\ handles[port_handler].opened
    /\ ~handles[port_handler].open
    /\ protocol_handler = NoHandler

====
